---- MODULE Spec2Model ----
(***************************************************************************)
(* RawMusic backend: the AI playlist generation pipeline                   *)
(* (controllers/aiController.js), the AIRequest model (models/AIRequest)   *)
(* and the parts of Track, Playlist and User the pipeline touches.         *)
(*                                                                         *)
(* Strings of user text are run-length encoded: a string is a sequence of  *)
(* runs <<c, n>>, n >= 1 copies of the character c, adjacent runs having   *)
(* different characters.  The encoding is exact and keeps the 500- and     *)
(* 1000-character limits of the validators checkable.                      *)
(***************************************************************************)
EXTENDS Integers, Sequences, FiniteSets, TLC

\* ---------------------------------------------------------------- bounds
MaxRequests == 2
MaxClock == 2
MaxProcs == 2
FillerTracks == 19
MaxWindowRequests == 11
MaxRuns == 3
MaxPlaylists == 1
MaxLikes == 2
MaxPlays == 3

\* ------------------------------------------------------ program constants
MinPromptLen == 3
MaxPromptLen == 500
MaxPlaylistNameLen == 100
MaxFeedbackLen == 1000
MinRating == 1
MaxRating == 5
SchemaMaxNameLen == 100
SchemaMaxDescriptionLen == 500
PrimaryLimit == 50
FallbackThreshold == 10
FallbackTarget == 20
TargetCount == 20
DescriptionPrefixLen == 25
OneHour == 3600000
AiRateLimitMax == 10
HistoryLimitCap == 50
ListeningHistoryCap == 50

\* ---------------------------------------------------------------- strings
\* a string that was not supplied (undefined); no run of a real string is empty
Absent == << <<"", 0>> >>

\* JavaScript truthiness of an optional string
Truthy(s) == s # Absent /\ s # <<>>

WhiteSpace == {" ", "\t", "\n"}

WordChars == {"a", "b", "c", "A", "B", "1", "_"}

Run(c, n) == <<c, n>>

RECURSIVE StrLen(_)
StrLen(s) == IF s = <<>> THEN 0 ELSE s[1][2] + StrLen(Tail(s))

RECURSIVE TrimStart(_)
TrimStart(s) ==
    IF s = <<>> THEN s
    ELSE IF s[1][1] \in WhiteSpace THEN TrimStart(Tail(s)) ELSE s

RECURSIVE TrimEnd(_)
TrimEnd(s) ==
    IF s = <<>> THEN s
    ELSE IF s[Len(s)][1] \in WhiteSpace THEN TrimEnd(SubSeq(s, 1, Len(s) - 1)) ELSE s

\* String.prototype.trim
Trim(s) == TrimEnd(TrimStart(s))

\* String.prototype.toLowerCase on one character
LowerChar(c) == CASE c = "A" -> "a" [] c = "B" -> "b" [] OTHER -> c

\* merges adjacent runs of the same character (keeps the encoding canonical)
RECURSIVE Canon(_)
Canon(s) ==
    IF Len(s) <= 1 THEN s
    ELSE LET rest == Canon(Tail(s))
         IN  IF rest[1][1] = s[1][1]
             THEN <<Run(s[1][1], s[1][2] + rest[1][2])>> \o Tail(rest)
             ELSE <<s[1]>> \o rest

\* .replace(/[^\w\s]/g, ' ') after .toLowerCase(), run by run
PunctToSpace(s) ==
    [i \in 1..Len(s) |->
        LET c == LowerChar(s[i][1])
        IN  IF c \in WordChars \/ c \in WhiteSpace THEN Run(c, s[i][2]) ELSE Run(" ", s[i][2])]

\* .replace(/\s+/g, ' '): every maximal run of whitespace becomes one space
RECURSIVE CollapseSpace(_)
CollapseSpace(s) ==
    IF s = <<>> THEN s
    ELSE IF s[1][1] \in WhiteSpace
         THEN LET rest == CollapseSpace(Tail(s))
              IN  IF rest # <<>> /\ rest[1][1] = " " THEN rest ELSE <<Run(" ", 1)>> \o rest
         ELSE <<s[1]>> \o CollapseSpace(Tail(s))

\* a normalization that collapses whitespace before it replaces punctuation
normalizePromptCollapseFirst(prompt) == Trim(Canon(PunctToSpace(CollapseSpace(prompt))))

\* aiRequestSchema.methods.normalizePrompt (part_000 lines 224-233)
normalizePrompt(prompt) == Trim(Canon(CollapseSpace(PunctToSpace(prompt))))

\* ------------------------------------------------------------ vocabulary
MoodVocabulary ==
    {"happy", "sad", "energetic", "calm", "romantic", "angry", "nostalgic",
     "peaceful", "uplifting", "melancholic", "relaxing", "motivational"}

GenreVocabulary ==
    {"pop", "rock", "jazz", "classical", "electronic", "hip-hop", "country",
     "folk", "blues", "reggae", "metal", "indie", "ambient", "world"}

\* the `lowercase: true` setter of the schema string paths, on the tokens used
Lowercase(w) == CASE w = "Happy" -> "happy" [] w = "JAZZ" -> "jazz" [] OTHER -> w

LowerAll(ws) == [i \in 1..Len(ws) |-> Lowercase(ws[i])]

Range(f) == {f[i] : i \in DOMAIN f}


\* --------------------------------------------------------------- catalog
Users == {"alice", "bob"}

\* a track of the catalog's bulk: rock, energetic, each less popular than
\* the one before
FillerTrack(i) ==
    [title |-> <<"r", "k">>, artist |-> <<"x">>, genre |-> "rock",
     mood |-> {"energetic"}, tags |-> {<<"l", "i", "v", "e">>},
     popularity |-> 70 - i, playCount |-> 0]

\* Track documents (models/Track.js); text fields are plain character
\* sequences.  Tracks 2 and 3 tie on popularity; tracks 4 and up are the
\* bulk.
Catalog ==
    << [title |-> <<"S", "u", "n">>, artist |-> <<"A", "l">>, genre |-> "pop",
        mood |-> {"happy", "uplifting"}, tags |-> {<<"s", "u", "m", "m", "e", "r">>},
        popularity |-> 95, playCount |-> 0],
       [title |-> <<"J", "a", "z", "z">>, artist |-> <<"A", "l">>, genre |-> "jazz",
        mood |-> {"calm", "romantic"}, tags |-> {<<"s", "m", "o", "o", "t", "h">>},
        popularity |-> 78, playCount |-> 4],
       [title |-> <<"D", "a", "w", "n">>, artist |-> <<"B", "o">>, genre |-> "ambient",
        mood |-> {"peaceful", "relaxing"}, tags |-> {<<"c", "a", "l", "m">>},
        popularity |-> 78, playCount |-> 4] >>
    \o [i \in 1..FillerTracks |-> FillerTrack(i)]

TrackIds == DOMAIN Catalog

LowerText(t) ==
    [i \in 1..Len(t) |->
        CASE t[i] = "S" -> "s" [] t[i] = "A" -> "a" [] t[i] = "J" -> "j"
          [] t[i] = "D" -> "d" [] t[i] = "B" -> "b" [] t[i] = "U" -> "u" [] OTHER -> t[i]]

\* new RegExp(keyword, 'i') tested against a text: a case-insensitive
\* substring search (the keywords used hold no regex metacharacters)
RegexMatch(keyword, text) ==
    \E i \in 1..(Len(text) - Len(keyword) + 1) :
        SubSeq(LowerText(text), i, i + Len(keyword) - 1) = LowerText(keyword)

\* the filter with its $or kept when no criterion was added to it
MatchesCriteriaKeepOr(t, moods, genres, keywords) ==
    LET tr == Catalog[t]
    IN  \/ Len(moods) > 0 /\ tr.mood \cap Range(LowerAll(moods)) # {}
        \/ Len(genres) > 0 /\ tr.genre \in Range(LowerAll(genres))
        \/ /\ Len(keywords) > 0
           /\ \E k \in Range(keywords) :
                 \/ \E tag \in tr.tags : RegexMatch(k, tag)
                 \/ RegexMatch(k, tr.title)
                 \/ RegexMatch(k, tr.artist)

\* the $or filter built at lines 89-117; moods and genres are cast through
\* the Track schema's lowercase setter when the query is built
MatchesCriteria(t, moods, genres, keywords) ==
    LET tr == Catalog[t]
        byMood == Len(moods) > 0 /\ tr.mood \cap Range(LowerAll(moods)) # {}
        byGenre == Len(genres) > 0 /\ tr.genre \in Range(LowerAll(genres))
        byKeyword ==
            Len(keywords) > 0 /\
            \E k \in Range(keywords) :
                \/ \E tag \in tr.tags : RegexMatch(k, tag)
                \/ RegexMatch(k, tr.title)
                \/ RegexMatch(k, tr.artist)
    IN  IF Len(moods) = 0 /\ Len(genres) = 0 /\ Len(keywords) = 0
        THEN TRUE
        ELSE byMood \/ byGenre \/ byKeyword

Min(a, b) == IF a < b THEN a ELSE b

\* .sort({ popularity: -1, playCount: -1 })
PrimaryBefore(a, b) ==
    \/ Catalog[a].popularity > Catalog[b].popularity
    \/ /\ Catalog[a].popularity = Catalog[b].popularity
       /\ Catalog[a].playCount > Catalog[b].playCount

\* .sort({ popularity: -1 })
FallbackBefore(a, b) == Catalog[a].popularity > Catalog[b].popularity

\* the pairs <<a, b>> of tracks that each sort puts a before b
PrimaryOrder == {ab \in TrackIds \X TrackIds : PrimaryBefore(ab[1], ab[2])}

FallbackOrder == {ab \in TrackIds \X TrackIds : FallbackBefore(ab[1], ab[2])}

\* the result sets a sorted query with .limit(k) can return: the first k of
\* some order compatible with the sort (ties are in store order, which the
\* code does not control)
\* A track is surely returned when fewer than k others are not after it,
\* and may be returned when fewer than k tracks are before it.
TopBy(S, k, before) ==
    LET sure == {a \in S : Cardinality({b \in S \ {a} : <<a, b>> \notin before}) < k}
        may == {a \in S \ sure : Cardinality({b \in S : <<b, a>> \in before}) < k}
        rest == Min(k, Cardinality(S)) - Cardinality(sure)
    IN  {sure \cup X : X \in {Y \in SUBSET may : Cardinality(Y) = rest}}

\* the primary query without its isActive condition
PrimarySearchAnyTrack(act, moods, genres, keywords) ==
    TopBy({t \in TrackIds : MatchesCriteria(t, moods, genres, keywords)},
          PrimaryLimit, PrimaryOrder)

\* Track.find(searchCriteria)...limit(50), lines 120-123
PrimarySearch(act, moods, genres, keywords) ==
    TopBy({t \in TrackIds : t \in act /\ MatchesCriteria(t, moods, genres, keywords)},
          PrimaryLimit, PrimaryOrder)

\* a fallback that also runs at exactly ten matches
FallbackSearchAtThreshold(act, found) ==
    IF found <= FallbackThreshold
    THEN TopBy({t \in TrackIds : t \in act}, FallbackTarget - found, FallbackOrder)
    ELSE {{}}

\* Track.find({ isActive: true })...limit(20 - tracks.length), lines 126-133
FallbackSearch(act, found) ==
    IF found < FallbackThreshold
    THEN TopBy({t \in TrackIds : t \in act}, FallbackTarget - found, FallbackOrder)
    ELSE {{}}

\* A pool of tracks is a bag: track id -> number of occurrences.  The order
\* produced by the random comparator of line 136 is not kept; a sequence of
\* tracks is stored in track-id order as the representative of its
\* permutations.
BagOf(S) == [t \in TrackIds |-> IF t \in S THEN 1 ELSE 0]

\* a pool in which a track found by both queries is kept once
BagSumDistinct(a, b) == [t \in TrackIds |-> IF a[t] + b[t] > 0 THEN 1 ELSE 0]

\* [...tracks, ...fallbackTracks], line 132
BagSum(a, b) == [t \in TrackIds |-> a[t] + b[t]]

RECURSIVE BagSizeUpTo(_, _)
BagSizeUpTo(b, n) == IF n = 0 THEN 0 ELSE b[n] + BagSizeUpTo(b, n - 1)

BagSize(b) == BagSizeUpTo(b, Cardinality(TrackIds))

\* the bags of k tracks taken from the occurrences pool has of tracks 1..t
RECURSIVE SubBags(_, _, _)
SubBags(pool, t, k) ==
    IF t = 0 THEN {[u \in TrackIds |-> 0]}
    ELSE LET least == IF k > BagSizeUpTo(pool, t - 1)
                      THEN k - BagSizeUpTo(pool, t - 1) ELSE 0
         IN  UNION { {[b EXCEPT ![t] = n] : b \in SubBags(pool, t - 1, k - n)}
                     : n \in least..Min(pool[t], k) }

\* tracks.sort(() => Math.random() - 0.5).slice(0, 20): any 20 of the pool
ShuffleSlice(pool) ==
    SubBags(pool, Cardinality(TrackIds), Min(TargetCount, BagSize(pool)))

RECURSIVE SeqOfBagFrom(_, _)
SeqOfBagFrom(b, t) ==
    IF t > Cardinality(TrackIds) THEN <<>>
    ELSE [i \in 1..b[t] |-> t] \o SeqOfBagFrom(b, t + 1)

SeqOfBag(b) == SeqOfBagFrom(b, 1)

\* the track lists one generation can end with (lines 119-136)
MatchTracks(act, moods, genres, keywords) ==
    UNION { UNION { {SeqOfBag(b) : b \in ShuffleSlice(BagSum(BagOf(P), BagOf(F)))}
                    : F \in FallbackSearch(act, Cardinality(P)) }
            : P \in PrimarySearch(act, moods, genres, keywords) }


\* ---------------------------------------------------------------- inputs
\* request bodies of POST /api/ai/generate
ValidPrompts ==
    { <<Run(" ", 1), Run("A", 1), Run("!", 2), Run("b", 2)>>,
      <<Run("a", 500)>> }

InvalidPrompts ==
    { Absent,
      <<Run("a", 2)>>,
      <<Run(" ", 1), Run("a", 2), Run(" ", 3)>>,
      <<Run("a", 501)>> }

PlaylistNameInputs == { Absent, <<Run("b", 101)>> }

\* what model.generateContent / response.text() / JSON.parse can give.
\* kind: "throw" (the call rejects with an error carrying msg), "garbage"
\* (text that is not JSON), "null" (the JSON text null), "scalar" (a JSON
\* number) and "object".  A list field of an object is an array of items or
\* something that is not an array.
Arr(items) == [isArray |-> TRUE, items |-> items]

NotArr == [isArray |-> FALSE, items |-> <<>>]

GeminiOutcome(kind, msg, moods, genres, keywords, title, description) ==
    [kind |-> kind, msg |-> msg, moods |-> moods, genres |-> genres,
     keywords |-> keywords, playlistTitle |-> title, description |-> description]

GeminiOutcomes ==
    { GeminiOutcome("throw", "", NotArr, NotArr, NotArr, Absent, Absent),
      GeminiOutcome("garbage", "", NotArr, NotArr, NotArr, Absent, Absent),
      GeminiOutcome("null", "", NotArr, NotArr, NotArr, Absent, Absent),
      GeminiOutcome("scalar", "", NotArr, NotArr, NotArr, Absent, Absent),
      GeminiOutcome("object", "", Arr(<<"peaceful", "relaxing">>), Arr(<<"ambient">>), Arr(<<>>),
                    <<Run("c", 4)>>, <<Run("c", 9)>>),
      GeminiOutcome("object", "", Arr(<<"Happy">>), Arr(<<>>), Arr(<< <<"S", "u", "m">> >>),
                    Absent, Absent),
      GeminiOutcome("object", "", Arr(<<"chill">>), Arr(<<"pop">>), Arr(<<>>),
                    <<Run("c", 4)>>, <<Run("c", 9)>>),
      GeminiOutcome("object", "", Arr(<<"calm">>), Arr(<<"k-pop">>), Arr(<<>>),
                    <<Run("c", 4)>>, <<Run("c", 9)>>),
      GeminiOutcome("object", "", NotArr, NotArr, NotArr,
                    <<Run("c", 101)>>, <<Run("c", 9)>>) }

\* ----------------------------------------------------------------- state
VARIABLES
    scope,          \* the inputs and schedules a run exercises (fixed)
    clock,          \* the last value Date.now() returned
    active,         \* the ids of the catalog tracks with isActive = true
    requests,       \* the AIRequest collection, in creation order
    playlists,      \* the Playlist collection, in creation order
    userPlaylists,  \* user -> User.playlists
    procs,          \* the handler invocations in flight
    aiCalls,        \* calls of model.generateContent made so far
    trackStats,     \* track id -> the play and like counters of the Track document
    accounts        \* user -> likedTracks, listeningHistory and stats of the User

vars ==
    <<scope, clock, active, requests, playlists, userPlaylists, procs, aiCalls,
      trackStats, accounts>>

\* the counters of the Track documents as seeded; popularity is kept in
\* tenths (the score of Track.js line 130 has one decimal)
InitTrackStats ==
    [t \in TrackIds |->
        [playCount |-> Catalog[t].playCount, likeCount |-> 0,
         popularity10 |-> 10 * Catalog[t].popularity]]

\* schema defaults of a User (models/User.js lines 37-79)
NewAccount ==
    [likedTracks |-> <<>>, listeningHistory |-> <<>>,
     stats |-> [totalListeningTime |-> 0, totalTracks |-> 0]]

\* the locals of a toggleLike call: the track and user documents it loaded
NoLike == [track |-> 0, likeCount |-> 0, playCount |-> 0, likedTracks |-> <<>>, isLiked |-> FALSE]

ProcIds == 1..MaxProcs

NoSatisfaction == [rated |-> FALSE, rating |-> 0, feedback |-> Absent, ratedAt |-> 0]

NoBody ==
    [prompt |-> Absent, playlistName |-> Absent, savePlaylist |-> FALSE,
     rating |-> 0, feedback |-> Absent]

\* req.body of POST /generate
GenerateBody(prompt, playlistName, savePlaylist) ==
    [NoBody EXCEPT !.prompt = prompt, !.playlistName = playlistName,
                   !.savePlaylist = savePlaylist]

\* req.body of POST /rate/:requestId
RateBody(rating, feedback) == [NoBody EXCEPT !.rating = rating, !.feedback = feedback]

NoGemini == GeminiOutcome("none", "", NotArr, NotArr, NotArr, Absent, Absent)

\* the response a finished invocation leaves behind: the handler, the
\* caller, the request it named or produced and the HTTP status; a rating
\* response also carries the rating and feedback it echoes (lines 307-314)
\* and, for reference, the satisfaction the record held before; a history
\* response carries the ids of the requests it lists (lines 220-223)
\* $avg over no rating: null
NoRatings == [sum |-> 0, count |-> 0]

\* the data of a response that carries no analytics
NoAnalytics ==
    [userStats |-> [totalRequests |-> 0, successfulRequests |-> 0,
                    averageRating |-> NoRatings, totalTracksGenerated |-> 0],
     popularPrompts |-> <<>>,
     moodGenreAnalytics |-> [moodAnalytics |-> {}, genreAnalytics |-> {}],
     recentSuccessful |-> <<>>]

Response(op, user, target, code) ==
    [code |-> code, op |-> op, user |-> user, target |-> target,
     rating |-> 0, feedback |-> Absent, before |-> NoSatisfaction, history |-> <<>>,
     totalPages |-> 0, limit |-> 0, analytics |-> NoAnalytics]

NoRes == Response("none", "none", 0, 0)

\* Date.now(): the clock may or may not have advanced since the last reading
Now == IF scope.tick THEN {t \in clock..(clock + 1) : t <= MaxClock} ELSE {clock}

\* AIRequest.create (schema defaults and timestamps, part_000 lines 3-95,
\* and the pre-save hook of lines 236-241)
NewRequest(user, prompt, now) ==
    [user |-> user, prompt |-> prompt, normalizedPrompt |-> normalizePrompt(prompt),
     extractedKeywords |-> <<>>, extractedMoods |-> <<>>, extractedGenres |-> <<>>,
     geminiResponse |-> "unset", generatedTracks |-> <<>>, generatedPlaylist |-> 0,
     requestType |-> "playlist_generation", status |-> "pending",
     processingTime |-> 0, errorMessage |-> "", satisfaction |-> NoSatisfaction,
     usageCount |-> 1, lastUsed |-> now, createdAt |-> now]

\* the in-memory document of a stored request: its paths and the
\* non-schema property processingStartTime (0: never set)
LoadDoc(rec) == [loaded |-> TRUE, processingStartTime |-> 0] @@ rec

NoDoc == [LoadDoc(NewRequest("none", <<>>, 0)) EXCEPT !.loaded = FALSE]

\* the state of one handler invocation: where it stands (pc) and its locals
IdleProc ==
    [pc |-> "idle", op |-> "none", user |-> "none", body |-> NoBody, target |-> 0, req |-> 0,
     doc |-> NoDoc, gemini |-> NoGemini, tracks |-> <<>>, playlist |-> 0,
     like |-> NoLike, err |-> "", res |-> NoRes]

\* the in-memory effect of updateStatus, before its save()
updateStatus(doc, status, errorMessage, now) ==
    LET start == IF status = "processing" /\ doc.status = "pending"
                 THEN now ELSE doc.processingStartTime
        elapsed == IF status \in {"completed", "failed"} /\ start # 0
                   THEN now - start ELSE doc.processingTime
    IN  [doc EXCEPT !.processingStartTime = start,
                    !.processingTime = elapsed,
                    !.status = status,
                    !.errorMessage = IF errorMessage # "" THEN errorMessage ELSE @]

\* a schema whose extractedGenres has no enum
ValidDocMoodsOnly(doc) == Range(doc.extractedMoods) \subseteq MoodVocabulary

\* schema validation run by save(): the enum validators of extractedMoods
\* and extractedGenres
ValidDoc(doc) ==
    /\ Range(doc.extractedMoods) \subseteq MoodVocabulary
    /\ Range(doc.extractedGenres) \subseteq GenreVocabulary

\* document.save() of the pipeline's document: writes the paths the pipeline
\* modifies onto the stored record
SaveDoc(rec, doc) ==
    [rec EXCEPT !.status = doc.status,
                !.processingTime = doc.processingTime,
                !.errorMessage = doc.errorMessage,
                !.extractedMoods = doc.extractedMoods,
                !.extractedGenres = doc.extractedGenres,
                !.extractedKeywords = doc.extractedKeywords,
                !.geminiResponse = doc.geminiResponse,
                !.generatedTracks = doc.generatedTracks,
                !.generatedPlaylist = doc.generatedPlaylist]

\* the prompt chain without its trim()
generateValidationNoTrim(body) ==
    /\ body.prompt # Absent
    /\ StrLen(body.prompt) >= MinPromptLen
    /\ StrLen(body.prompt) <= MaxPromptLen
    /\ body.playlistName # Absent => StrLen(Trim(body.playlistName)) <= MaxPlaylistNameLen

\* express-validator chains of generateValidation
generateValidation(body) ==
    /\ body.prompt # Absent
    /\ StrLen(Trim(body.prompt)) >= MinPromptLen
    /\ StrLen(Trim(body.prompt)) <= MaxPromptLen
    /\ body.playlistName # Absent => StrLen(Trim(body.playlistName)) <= MaxPlaylistNameLen

\* the name given to a playlist when neither the caller nor the analysis
\* supplies one: "AI Playlist - " and a locale date
DefaultPlaylistName == <<Run("p", 14), Run("1", 10)>>

\* line 147
FinalPlaylistName(body, gemini) ==
    IF Truthy(body.playlistName) THEN body.playlistName
    ELSE IF Truthy(gemini.playlistTitle) THEN gemini.playlistTitle
    ELSE DefaultPlaylistName

\* length of the description of line 151
DescriptionLen(body, gemini) ==
    IF Truthy(gemini.description) THEN StrLen(gemini.description)
    ELSE DescriptionPrefixLen + StrLen(body.prompt)

\* schema validation of Playlist.create (models/Playlist: name required,
\* trimmed, at most 100; description at most 500)
ValidPlaylist(name, descriptionLen) ==
    /\ StrLen(Trim(name)) >= 1
    /\ StrLen(Trim(name)) <= SchemaMaxNameLen
    /\ descriptionLen <= SchemaMaxDescriptionLen

\* a playlist created without the isPublic: false of line 160
NewPlaylistPublic(user, name, prompt, tracks) ==
    [name |-> Trim(name), owner |-> user, tracks |-> tracks, isPublic |-> TRUE,
     isAIGenerated |-> TRUE, aiPrompt |-> prompt, isActive |-> TRUE,
     genre |-> {Catalog[tracks[i]].genre : i \in DOMAIN tracks},
     mood |-> UNION {Catalog[tracks[i]].mood : i \in DOMAIN tracks}]

\* the Playlist document of lines 149-161, after the pre-save hook that
\* derives genre and mood from the tracks
NewPlaylist(user, name, prompt, tracks) ==
    [name |-> Trim(name), owner |-> user, tracks |-> tracks, isPublic |-> FALSE,
     isAIGenerated |-> TRUE, aiPrompt |-> prompt, isActive |-> TRUE,
     genre |-> {Catalog[tracks[i]].genre : i \in DOMAIN tracks},
     mood |-> UNION {Catalog[tracks[i]].mood : i \in DOMAIN tracks}]

\* ------------------------------------------------------------ scheduling
InFlight == {q \in ProcIds : procs[q].pc # "idle"}

\* invocations that will still create a request record
WillCreate == {q \in ProcIds : procs[q].pc \in {"found", "enter"}}

CanStart(p) ==
    /\ procs[p].pc = "idle"
    /\ scope.serial => (p = 1 /\ InFlight = {})

Finish(p, res) == procs' = [procs EXCEPT ![p] = [IdleProc EXCEPT !.res = res]]

\* ------------------------------------------------- middleware (part_005)
\* protect: req.user is the user document read from the store for this
\* request.  lastAIRequest and aiRequestCount are no paths of the user
\* schema and nothing saves them: the document read has neither (0: undefined).
protect(u) == [id |-> u, lastAIRequest |-> 0, aiRequestCount |-> 0]

\* aiRateLimit on req.user at time now: whether next() is called, and
\* req.user afterwards
aiRateLimit(user, now) ==
    IF user.lastAIRequest = 0
    THEN [pass |-> TRUE, user |-> [user EXCEPT !.lastAIRequest = now, !.aiRequestCount = 1]]
    ELSE IF now - user.lastAIRequest < OneHour
    THEN IF user.aiRequestCount >= AiRateLimitMax
         THEN [pass |-> FALSE, user |-> user]
         ELSE [pass |-> TRUE, user |-> [user EXCEPT !.aiRequestCount = @ + 1]]
    ELSE [pass |-> TRUE, user |-> [user EXCEPT !.lastAIRequest = now, !.aiRequestCount = 1]]

\* ------------------------------------------- POST /api/ai/generate (14-207)
\* protect and aiRateLimit (routes/ai.js line 19), then the validation
\* chain and the check of lines 16-23
PostGenerate(p, u, body) ==
    /\ CanStart(p)
    /\ Len(requests) + Cardinality(WillCreate) < scope.maxRequests
    /\ IF ~aiRateLimit(protect(u), clock).pass
       THEN Finish(p, Response("generate", u, 0, 429))
       ELSE IF generateValidation(body)
       THEN procs' = [procs EXCEPT ![p] =
                [IdleProc EXCEPT !.pc = "enter", !.op = "generate", !.user = u,
                                 !.body = [body EXCEPT !.prompt = Trim(body.prompt)]]]
       ELSE Finish(p, Response("generate", u, 0, 400))
    /\ UNCHANGED <<scope, clock, active, requests, playlists, userPlaylists, aiCalls, trackStats, accounts>>

\* AIRequest.create, lines 25-33
generateCreate(p) ==
    /\ procs[p].pc = "enter"
    /\ \E now \in Now :
        LET rec == NewRequest(procs[p].user, Trim(procs[p].body.prompt), now)
        IN  /\ requests' = Append(requests, rec)
            /\ clock' = now
            /\ procs' = [procs EXCEPT ![p].pc = "created",
                                      ![p].req = Len(requests) + 1,
                                      ![p].doc = LoadDoc(rec)]
    /\ UNCHANGED <<scope, active, playlists, userPlaylists, aiCalls, trackStats, accounts>>

\* await aiRequest.updateStatus('processing'), line 35
generateProcessing(p) ==
    /\ procs[p].pc = "created"
    /\ \E now \in Now :
        LET doc == updateStatus(procs[p].doc, "processing", "", now)
        IN  /\ requests' = [requests EXCEPT ![procs[p].req] = SaveDoc(@, doc)]
            /\ clock' = now
            /\ procs' = [procs EXCEPT ![p].pc = "analyze", ![p].doc = doc]
    /\ UNCHANGED <<scope, active, playlists, userPlaylists, aiCalls, trackStats, accounts>>

ItemsOf(field) == IF field.isArray THEN field.items ELSE <<>>

\* the call of the generative service, the parse and the save of the
\* extraction, lines 61-86
generateAnalyze(p, g) ==
    /\ procs[p].pc = "analyze"
    /\ aiCalls' = aiCalls + 1
    /\ CASE g.kind = "throw" ->
              /\ procs' = [procs EXCEPT ![p].pc = "catch", ![p].err = g.msg]
              /\ UNCHANGED requests
         [] g.kind = "garbage" ->
              /\ procs' = [procs EXCEPT ![p].pc = "catch",
                                        ![p].err = "Failed to parse AI response"]
              /\ UNCHANGED requests
         [] g.kind = "null" ->
              /\ procs' = [procs EXCEPT ![p].pc = "catch",
                                        ![p].err = "Cannot read properties of null"]
              /\ UNCHANGED requests
         [] OTHER ->
              LET doc == [procs[p].doc EXCEPT
                              !.extractedMoods = LowerAll(ItemsOf(g.moods)),
                              !.extractedGenres = LowerAll(ItemsOf(g.genres)),
                              !.extractedKeywords =
                                  [i \in DOMAIN ItemsOf(g.keywords) |->
                                      LowerText(ItemsOf(g.keywords)[i])],
                              !.geminiResponse = g.kind]
              IN  IF ValidDoc(doc)
                  THEN /\ requests' = [requests EXCEPT ![procs[p].req] = SaveDoc(@, doc)]
                       /\ procs' = [procs EXCEPT ![p].pc = "match", ![p].doc = doc,
                                                 ![p].gemini = g]
                  ELSE /\ UNCHANGED requests
                       /\ procs' = [procs EXCEPT ![p].pc = "catch", ![p].doc = doc,
                                                 ![p].gemini = g,
                                                 ![p].err = "AIRequest validation failed"]
    /\ UNCHANGED <<scope, clock, active, playlists, userPlaylists, trackStats, accounts>>

\* the two catalog queries, the shuffle and updateStatus('completed'),
\* lines 88-140
generateMatch(p) ==
    /\ procs[p].pc = "match"
    /\ \E now \in Now :
       \E tracks \in MatchTracks(active, ItemsOf(procs[p].gemini.moods),
                                 ItemsOf(procs[p].gemini.genres),
                                 ItemsOf(procs[p].gemini.keywords)) :
        LET doc == updateStatus([procs[p].doc EXCEPT !.generatedTracks = tracks],
                                "completed", "", now)
        IN  /\ requests' = [requests EXCEPT ![procs[p].req] = SaveDoc(@, doc)]
            /\ clock' = now
            /\ procs' = [procs EXCEPT ![p].pc = "materialize", ![p].doc = doc,
                                      ![p].tracks = tracks]
    /\ UNCHANGED <<scope, active, playlists, userPlaylists, aiCalls, trackStats, accounts>>

OkResponse(p) ==
    Response(procs[p].op, procs[p].user, procs[p].req, 200)

\* a playlist for every caller who asked, whatever was matched
WantsPlaylistAnyTracks(body, tracks) == body.savePlaylist

\* the condition of line 146
WantsPlaylist(body, tracks) == body.savePlaylist /\ Len(tracks) > 0

\* lines 144-161 (Playlist.create) or, when no playlist is wanted, the
\* response of lines 175-191.  fault: the store rejects the write.
generateCreatePlaylist(p, fault) ==
    /\ procs[p].pc = "materialize"
    /\ IF WantsPlaylist(procs[p].body, procs[p].tracks)
       THEN LET name == FinalPlaylistName(procs[p].body, procs[p].gemini)
            IN  IF fault
                THEN /\ procs' = [procs EXCEPT ![p].pc = "catch", ![p].err = "storage error"]
                     /\ UNCHANGED playlists
                ELSE IF ValidPlaylist(name, DescriptionLen(procs[p].body, procs[p].gemini))
                THEN /\ playlists' = Append(playlists,
                            NewPlaylist(procs[p].user, name, procs[p].body.prompt,
                                        procs[p].tracks))
                     /\ procs' = [procs EXCEPT ![p].pc = "linkUser",
                                               ![p].playlist = Len(playlists) + 1]
                ELSE /\ procs' = [procs EXCEPT ![p].pc = "catch",
                                               ![p].err = "Playlist validation failed"]
                     /\ UNCHANGED playlists
       ELSE /\ fault = FALSE
            /\ Finish(p, OkResponse(p))
            /\ UNCHANGED playlists
    /\ UNCHANGED <<scope, clock, active, requests, userPlaylists, aiCalls, trackStats, accounts>>

\* lines 163-166: the playlist is pushed onto the owner's playlists
generateLinkUser(p, fault) ==
    /\ procs[p].pc = "linkUser"
    /\ IF fault
       THEN /\ procs' = [procs EXCEPT ![p].pc = "catch", ![p].err = "storage error"]
            /\ UNCHANGED userPlaylists
       ELSE /\ userPlaylists' = [userPlaylists EXCEPT ![procs[p].user] =
                                    Append(@, procs[p].playlist)]
            /\ procs' = [procs EXCEPT ![p].pc = "linkRequest"]
    /\ UNCHANGED <<scope, clock, active, requests, playlists, aiCalls, trackStats, accounts>>

\* lines 168-169: the playlist is recorded on the request
generateLinkRequest(p, fault) ==
    /\ procs[p].pc = "linkRequest"
    /\ IF fault
       THEN /\ procs' = [procs EXCEPT ![p].pc = "catch", ![p].err = "storage error"]
            /\ UNCHANGED requests
       ELSE LET doc == [procs[p].doc EXCEPT !.generatedPlaylist = procs[p].playlist]
            IN  /\ requests' = [requests EXCEPT ![procs[p].req] = SaveDoc(@, doc)]
                /\ procs' = [procs EXCEPT ![p].pc = "respond", ![p].doc = doc]
    /\ UNCHANGED <<scope, clock, active, playlists, userPlaylists, aiCalls, trackStats, accounts>>

\* lines 171-191: populate and the success response
generateRespond(p) ==
    /\ procs[p].pc = "respond"
    /\ Finish(p, OkResponse(p))
    /\ UNCHANGED <<scope, clock, active, requests, playlists, userPlaylists, aiCalls, trackStats, accounts>>

\* the catch block of lines 193-202; when the save inside updateStatus is
\* rejected by schema validation the error reaches next(error) (line 205)
\* and the error handler answers 400
generateCatch(p) ==
    /\ procs[p].pc = "catch"
    /\ \E now \in Now :
        LET doc == updateStatus(procs[p].doc, "failed", procs[p].err, now)
        IN  /\ clock' = now
            /\ IF ValidDoc(doc)
               THEN /\ requests' = [requests EXCEPT ![procs[p].req] = SaveDoc(@, doc)]
                    /\ Finish(p, Response(procs[p].op, procs[p].user, procs[p].req, 500))
               ELSE /\ UNCHANGED requests
                    /\ Finish(p, Response(procs[p].op, procs[p].user, procs[p].req, 400))
    /\ UNCHANGED <<scope, active, playlists, userPlaylists, aiCalls, trackStats, accounts>>

\* ------------------------------- POST /api/ai/regenerate/:requestId (242-274)
\* a lookup by id alone
FindById(u, r) == r \in DOMAIN requests

\* AIRequest.findOne({ _id, user })
FindOwned(u, r) == r \in DOMAIN requests /\ requests[r].user = u

\* protect and aiRateLimit (routes/ai.js line 23), then lines 242-257
regeneratePlaylist(p, u, r, saveAsNew) ==
    /\ CanStart(p)
    /\ Len(requests) + Cardinality(WillCreate) < scope.maxRequests
    /\ IF ~aiRateLimit(protect(u), clock).pass
       THEN Finish(p, Response("regenerate", u, r, 429))
       ELSE IF FindOwned(u, r)
       THEN procs' = [procs EXCEPT ![p] =
                [IdleProc EXCEPT !.pc = "found", !.op = "regenerate", !.user = u,
                                 !.target = r, !.doc = LoadDoc(requests[r]),
                                 !.body = GenerateBody(Absent, Absent, saveAsNew)]]
       ELSE Finish(p, Response("regenerate", u, r, 404))
    /\ UNCHANGED <<scope, clock, active, requests, playlists, userPlaylists, aiCalls, trackStats, accounts>>

\* a markAsUsed that only stamps the time
markAsUsedNoCount(rec, doc, now) == [rec EXCEPT !.lastUsed = now]

\* markAsUsed (part_000 lines 207-211): the loaded count plus one is saved
markAsUsed(rec, doc, now) ==
    [rec EXCEPT !.usageCount = doc.usageCount + 1, !.lastUsed = now]

\* lines 259-269: markAsUsed, then the body handed to generatePlaylist
regenerateMarkAsUsed(p) ==
    /\ procs[p].pc = "found"
    /\ \E now \in Now :
        /\ requests' = [requests EXCEPT ![procs[p].target] =
                            markAsUsed(@, procs[p].doc, now)]
        /\ clock' = now
    /\ procs' = [procs EXCEPT ![p].pc = "enter", ![p].doc = NoDoc,
                              ![p].body.prompt = procs[p].doc.prompt]
    /\ UNCHANGED <<scope, active, playlists, userPlaylists, aiCalls, trackStats, accounts>>

\* ------------------------------------- POST /api/ai/rate/:requestId (279-319)
\* express-validator chains of ratingValidation
ratingValidation(body) ==
    /\ body.rating >= MinRating
    /\ body.rating <= MaxRating
    /\ body.feedback # Absent => StrLen(Trim(body.feedback)) <= MaxFeedbackLen

ratePlaylist(p, u, r, body) ==
    /\ CanStart(p)
    /\ IF ~ratingValidation(body)
       THEN Finish(p, [Response("rate", u, r, 400) EXCEPT
                          !.rating = body.rating, !.feedback = body.feedback])
       ELSE IF FindOwned(u, r)
       THEN procs' = [procs EXCEPT ![p] =
                [IdleProc EXCEPT !.pc = "rating", !.op = "rate", !.user = u, !.target = r,
                                 !.body = [body EXCEPT !.feedback =
                                              IF @ = Absent THEN @ ELSE Trim(@)]]]
       ELSE Finish(p, Response("rate", u, r, 404))
    /\ UNCHANGED <<scope, clock, active, requests, playlists, userPlaylists, aiCalls, trackStats, accounts>>

\* a rating that keeps the earlier comment when the call brings none
rateSatisfactionMerge(rec, rating, feedback, now) ==
    [rec EXCEPT !.satisfaction =
        [rated |-> TRUE, rating |-> rating,
         feedback |-> IF feedback # Absent THEN feedback
                      ELSE IF rec.satisfaction.rated THEN rec.satisfaction.feedback
                      ELSE <<>>,
         ratedAt |-> now]]

\* rateSatisfaction (part_000 lines 214-221); feedback defaults to ''
rateSatisfaction(rec, rating, feedback, now) ==
    [rec EXCEPT !.satisfaction =
        [rated |-> TRUE, rating |-> rating,
         feedback |-> IF feedback = Absent THEN <<>> ELSE feedback,
         ratedAt |-> now]]

\* line 305 and the response of lines 307-314
rateSave(p) ==
    /\ procs[p].pc = "rating"
    /\ \E now \in Now :
        /\ requests' = [requests EXCEPT ![procs[p].target] =
                            rateSatisfaction(@, procs[p].body.rating,
                                             procs[p].body.feedback, now)]
        /\ clock' = now
    /\ Finish(p, [Response("rate", procs[p].user, procs[p].target, 200) EXCEPT
                      !.rating = procs[p].body.rating,
                      !.feedback = procs[p].body.feedback,
                      !.before = requests[procs[p].target].satisfaction])
    /\ UNCHANGED <<scope, active, playlists, userPlaylists, aiCalls, trackStats, accounts>>

\* ------------------------------------------------------- specification
\* .sort({ createdAt: -1 }) of the history query (part_000 line 122): the
\* orders the sort can give to the listed requests, newest first; requests
\* with equal createdAt come in either order
RECURSIVE ByRecency(_)
ByRecency(listed) ==
    IF listed = {} THEN {<<>>}
    ELSE LET newest == {r \in listed :
                           \A q \in listed :
                               requests[r].createdAt >= requests[q].createdAt}
         IN  UNION {{<<r>> \o f : f \in ByRecency(listed \ {r})} : r \in newest}

\* a history query that does not filter by user
getUserHistoryAnyUser(userId, limit, skip) ==
    {SubSeq(f, skip + 1, Min(skip + limit, Len(f))) : f \in ByRecency(DOMAIN requests)}

\* AIRequest.getUserHistory (part_000 lines 118-126): the results the query
\* can return, as request ids
getUserHistory(userId, limit, skip) ==
    LET listed == {r \in DOMAIN requests : requests[r].user = userId}
    IN  {SubSeq(f, skip + 1, Min(skip + limit, Len(f))) : f \in ByRecency(listed)}

\* AIRequest.countDocuments({ user }) (aiController.js line 218)
countDocuments(userId) ==
    Cardinality({r \in DOMAIN requests : requests[r].user = userId})

\* Math.ceil(a / b) for a >= 0 and b >= 1
Ceil(a, b) == (a + b - 1) \div b

\* the history of a page (aiController.js lines 214-217): the skip is
\* computed from the limit of the query, the page is cut at limitNum
HistoryPage(userId, page, limit) ==
    LET skip == (page - 1) * limit
        limitNum == Min(limit, HistoryLimitCap)
    IN  getUserHistory(userId, limitNum, skip)

\* data.pagination of the response (aiController.js lines 218-231)
Pagination(userId, limit) ==
    LET limitNum == Min(limit, HistoryLimitCap)
        total == countDocuments(userId)
    IN  [totalPages |-> Ceil(total, limitNum), totalRequests |-> total, limit |-> limitNum]

\* GET /api/ai/history (behind protect, routes/ai.js line 22), lines 212-237
getAIHistory(p, u, page, limit) ==
    /\ CanStart(p)
    /\ \E history \in HistoryPage(protect(u).id, page, limit) :
           Finish(p, [Response("history", u, 0, 200) EXCEPT
                          !.history = history,
                          !.totalPages = Pagination(protect(u).id, limit).totalPages,
                          !.limit = Pagination(protect(u).id, limit).limit])
    /\ UNCHANGED <<scope, clock, active, requests, playlists, userPlaylists, aiCalls, trackStats, accounts>>

\* req.query of the history calls: the first and the second page, of one
\* entry, of the default 20 or of one entry more than the cap
HistoryPages == {1, 2}

HistoryLimits == {1, 20, HistoryLimitCap + 1}

\* req.body of the rate calls: a rating alone, a rating with a comment of
\* the greatest length inside blanks, ratings below and above the range, a
\* comment one character too long
RateInputs ==
    { RateBody(3, Absent),
      RateBody(5, <<Run(" ", 1), Run("x", 1000)>>),
      RateBody(0, Absent),
      RateBody(6, Absent),
      RateBody(3, <<Run("x", 1001)>>) }

RequestIds == 1..MaxRequests

\* A run exercises one valid prompt (and every invalid one), one outcome
\* of the generative service and one state of the catalog.  The store
\* rejects writes in the runs where the service selects tracks by genre
\* and tracks 1 to 3 are active.
PipelineRun(prompt, g, act) ==
    [serial |-> TRUE, tick |-> TRUE, creators |-> {"alice"}, callers |-> Users,
     prompts |-> InvalidPrompts \cup {prompt}, names |-> PlaylistNameInputs,
     saves |-> BOOLEAN, outcomes |-> {g},
     faults |-> IF g.genres = Arr(<<"ambient">>) /\ act = {1, 2, 3}
                THEN BOOLEAN ELSE {FALSE},
     catalog |-> act, maxRequests |-> MaxRequests]

\* The generation pipeline with store faults: alice submits, both users may
\* ask to regenerate.  Every outcome is met with a prompt that punctuation
\* and case change; the longest prompt meets the outcomes that leave the
\* playlist's description to be built from it; a catalog with an inactive
\* track meets the outcomes that select it.  Tracks 1 to 3 are active, the
\* bulk of the catalog is not.
PipelineScopes ==
    {PipelineRun(prompt, g, {1, 2, 3}) :
        prompt \in {q \in ValidPrompts : StrLen(q) < MaxPromptLen}, g \in GeminiOutcomes}
    \cup
    {PipelineRun(prompt, g, {1, 2, 3}) :
        prompt \in {q \in ValidPrompts : StrLen(q) = MaxPromptLen},
        g \in {h \in GeminiOutcomes : h.kind = "object" /\ h.description = Absent}}
    \cup
    {PipelineRun(prompt, g, {1, 2}) :
        prompt \in {q \in ValidPrompts : StrLen(q) < MaxPromptLen},
        g \in {h \in GeminiOutcomes :
                 h.kind = "scalar" \/ h.genres = Arr(<<"ambient">>)}}

Init ==
    /\ scope \in PipelineScopes
    /\ clock = 1
    /\ active = scope.catalog
    /\ requests = <<>>
    /\ playlists = <<>>
    /\ userPlaylists = [u \in Users |-> <<>>]
    /\ procs = [p \in ProcIds |-> IdleProc]
    /\ aiCalls = 0
    /\ trackStats = InitTrackStats
    /\ accounts = [u \in Users |-> NewAccount]

Pipeline ==
    \/ \E p \in ProcIds : generateCreate(p)
    \/ \E p \in ProcIds : generateProcessing(p)
    \/ \E p \in ProcIds, g \in scope.outcomes : generateAnalyze(p, g)
    \/ \E p \in ProcIds : generateMatch(p)
    \/ \E p \in ProcIds, fault \in scope.faults : generateCreatePlaylist(p, fault)
    \/ \E p \in ProcIds, fault \in scope.faults : generateLinkUser(p, fault)
    \/ \E p \in ProcIds, fault \in scope.faults : generateLinkRequest(p, fault)
    \/ \E p \in ProcIds : generateRespond(p)
    \/ \E p \in ProcIds : generateCatch(p)

Generate ==
    \E p \in ProcIds, u \in scope.creators, prompt \in scope.prompts,
       name \in scope.names, save \in scope.saves :
       PostGenerate(p, u, GenerateBody(prompt, name, save))

Regenerate ==
    \/ \E p \in ProcIds, u \in scope.callers, r \in RequestIds, save \in scope.saves :
          regeneratePlaylist(p, u, r, save)
    \/ \E p \in ProcIds : regenerateMarkAsUsed(p)

Rate ==
    \/ \E p \in ProcIds, u \in scope.callers, r \in RequestIds, body \in RateInputs :
          ratePlaylist(p, u, r, body)
    \/ \E p \in ProcIds : rateSave(p)

Next == Generate \/ Pipeline \/ Regenerate

Spec == Init /\ [][Next]_vars

\* Ratings and ownership: alice submits, both users regenerate and rate; the
\* generative service either answers well or with text that does not parse.
FeedbackScopes ==
    {[serial |-> TRUE, tick |-> FALSE, creators |-> {"alice"}, callers |-> Users,
      prompts |-> InvalidPrompts \cup {<<Run("a", 3)>>}, names |-> {Absent},
      saves |-> {TRUE}, outcomes |-> {g}, faults |-> {FALSE},
      catalog |-> {1, 2, 3}, maxRequests |-> MaxRequests]
        : g \in {h \in GeminiOutcomes :
                    \/ h.kind = "garbage"
                    \/ h.kind = "object" /\ h.genres = Arr(<<"ambient">>)}}

InitFeedback ==
    /\ scope \in FeedbackScopes
    /\ clock = 1
    /\ active = scope.catalog
    /\ requests = <<>>
    /\ playlists = <<>>
    /\ userPlaylists = [u \in Users |-> <<>>]
    /\ procs = [p \in ProcIds |-> IdleProc]
    /\ aiCalls = 0
    /\ trackStats = InitTrackStats
    /\ accounts = [u \in Users |-> NewAccount]

NextFeedback == Generate \/ Pipeline \/ Regenerate \/ Rate

SpecFeedback == InitFeedback /\ [][NextFeedback]_vars

\* answers of the generative service that select the bulk of the catalog,
\* select nothing, or do not parse
MatchOutcomes ==
    { GeminiOutcome("object", "", Arr(<<>>), Arr(<<"rock">>), Arr(<<>>),
                    <<Run("c", 4)>>, <<Run("c", 9)>>),
      GeminiOutcome("object", "", Arr(<<>>), Arr(<<>>), Arr(<<>>),
                    <<Run("c", 4)>>, <<Run("c", 9)>>),
      GeminiOutcome("scalar", "", NotArr, NotArr, NotArr, Absent, Absent),
      GeminiOutcome("garbage", "", NotArr, NotArr, NotArr, Absent, Absent) }

\* the sets of active tracks the matcher is run on: none; the three tracks
\* that are not rock; these with 9, with 10 and with 18 rock tracks
ActiveSets == { {}, {1, 2, 3}, 1..12, 1..13, 1..21 }

\* Track matching: alice submits one prompt, with or without a playlist;
\* when nothing is active she asks for one, and when the match has more
\* tracks than it returns she submits once.
MatchScopes ==
    {[serial |-> TRUE, tick |-> FALSE, creators |-> {"alice"}, callers |-> {"alice"},
      prompts |-> {<<Run("a", 3)>>}, names |-> {Absent},
      saves |-> IF act = {} THEN {TRUE} ELSE BOOLEAN,
      outcomes |-> {g}, faults |-> {FALSE}, catalog |-> act,
      maxRequests |-> IF Cardinality(act) > TargetCount THEN 1 ELSE MaxRequests]
        : g \in MatchOutcomes, act \in ActiveSets}

InitMatch ==
    /\ scope \in MatchScopes
    /\ clock = 1
    /\ active = scope.catalog
    /\ requests = <<>>
    /\ playlists = <<>>
    /\ userPlaylists = [u \in Users |-> <<>>]
    /\ procs = [p \in ProcIds |-> IdleProc]
    /\ aiCalls = 0
    /\ trackStats = InitTrackStats
    /\ accounts = [u \in Users |-> NewAccount]

NextMatch == Generate \/ Pipeline

SpecMatch == InitMatch /\ [][NextMatch]_vars

\* The rate limiter: alice alone submits and regenerates, more often than
\* the limit allows; the generative service is down and every generation
\* fails at once.
LimitScopes ==
    {[serial |-> TRUE, tick |-> FALSE, creators |-> {"alice"}, callers |-> {"alice"},
      prompts |-> {<<Run("a", 3)>>}, names |-> {Absent}, saves |-> {FALSE},
      outcomes |-> {g}, faults |-> {FALSE}, catalog |-> {},
      maxRequests |-> MaxWindowRequests]
        : g \in {h \in GeminiOutcomes : h.kind = "throw"}}

InitLimit ==
    /\ scope \in LimitScopes
    /\ clock = 1
    /\ active = scope.catalog
    /\ requests = <<>>
    /\ playlists = <<>>
    /\ userPlaylists = [u \in Users |-> <<>>]
    /\ procs = [p \in ProcIds |-> IdleProc]
    /\ aiCalls = 0
    /\ trackStats = InitTrackStats
    /\ accounts = [u \in Users |-> NewAccount]

FailingPipeline ==
    \/ \E p \in ProcIds : generateCreate(p)
    \/ \E p \in ProcIds : generateProcessing(p)
    \/ \E p \in ProcIds, g \in scope.outcomes : generateAnalyze(p, g)
    \/ \E p \in ProcIds : generateCatch(p)

NextLimit == Generate \/ Regenerate \/ FailingPipeline

SpecLimit == InitLimit /\ [][NextLimit]_vars

\* Prompt normalization: a letter in both cases, a digit, the underscore,
\* a punctuation mark and two kinds of whitespace
PromptAlphabet == {"a", "A", "1", "_", "!", " ", "\t"}

RunLengths == {1, 2}

\* the strings of at most n runs over PromptAlphabet
RECURSIVE PromptStrings(_)
PromptStrings(n) ==
    IF n = 0 THEN {<<>>}
    ELSE LET shorter == PromptStrings(n - 1)
             longer == {Append(t, Run(c, k)) :
                           t \in {x \in shorter : Len(x) = n - 1},
                           c \in PromptAlphabet, k \in RunLengths}
         IN  shorter \cup {x \in longer : n > 1 => x[n - 1][1] # x[n][1]}

\* alice submits one prompt drawn from the bounded strings
NormalizeScopes ==
    {[serial |-> TRUE, tick |-> FALSE, creators |-> {"alice"}, callers |-> {"alice"},
      prompts |-> {t}, names |-> {Absent}, saves |-> {FALSE},
      outcomes |-> {}, faults |-> {FALSE}, catalog |-> {}, maxRequests |-> 1]
        : t \in PromptStrings(MaxRuns)}

InitNormalize ==
    /\ scope \in NormalizeScopes
    /\ clock = 1
    /\ active = scope.catalog
    /\ requests = <<>>
    /\ playlists = <<>>
    /\ userPlaylists = [u \in Users |-> <<>>]
    /\ procs = [p \in ProcIds |-> IdleProc]
    /\ aiCalls = 0
    /\ trackStats = InitTrackStats
    /\ accounts = [u \in Users |-> NewAccount]

NextNormalize == Generate \/ \E p \in ProcIds : generateCreate(p)

SpecNormalize == InitNormalize /\ [][NextNormalize]_vars

\* ----------------------------------------- GET /api/ai/analytics (324-367)
PopularPromptsLimit == 10

SuccessfulLimit == 100

RecentSuccessfulCount == 10

\* $sum of val over the documents of S
RECURSIVE SumOf(_, _)
SumOf(S, val) ==
    IF S = {} THEN 0
    ELSE LET x == CHOOSE y \in S : TRUE IN val[x] + SumOf(S \ {x}, val)

\* $avg of satisfaction.rating over the documents of S, as the sum and the
\* number of the ratings present
AverageRating(S) ==
    LET rated == {r \in S : requests[r].satisfaction.rated}
    IN  [sum |-> SumOf(rated, [r \in rated |-> requests[r].satisfaction.rating]),
         count |-> Cardinality(rated)]

\* { status: 'completed', 'generatedTracks.0': { $exists: true } }
\* (part_000 lines 130-133, 143-146, 169-172): no condition on the user
SuccessfulRequests ==
    {r \in DOMAIN requests :
        requests[r].status = "completed" /\ Len(requests[r].generatedTracks) > 0}

\* AIRequest.getSuccessfulRequests (part_000 lines 129-139): the newest
\* successful requests, user populated with the username
getSuccessfulRequests(limit) ==
    {[i \in 1..Min(limit, Len(f)) |->
         [request |-> f[i], username |-> requests[f[i]].user, prompt |-> requests[f[i]].prompt]]
        : f \in ByRecency(SuccessfulRequests)}

\* $sort: { count: -1, lastUsed: -1 } (part_000 lines 158-160)
PopularBefore(a, b) ==
    \/ a.count > b.count
    \/ a.count = b.count /\ a.lastUsed > b.lastUsed

\* the orders the sort can give to the groups
RECURSIVE ByPopularity(_)
ByPopularity(groups) ==
    IF groups = {} THEN {<<>>}
    ELSE LET top == {g \in groups : \A h \in groups : ~PopularBefore(h, g)}
         IN  UNION {{<<g>> \o f : f \in ByPopularity(groups \ {g})} : g \in top}

\* AIRequest.getPopularPrompts (part_000 lines 142-166): the successful
\* requests of every user grouped by normalizedPrompt.  $first follows no
\* sort: originalPrompt is the prompt of any request of the group.
getPopularPrompts(limit) ==
    LET ids == {requests[r].normalizedPrompt : r \in SuccessfulRequests}
        members(id) == {r \in SuccessfulRequests : requests[r].normalizedPrompt = id}
        group(id, first) ==
            [id |-> id,
             count |-> SumOf(members(id), [r \in members(id) |-> requests[r].usageCount]),
             averageRating |-> AverageRating(members(id)),
             lastUsed |-> CHOOSE t \in {requests[r].lastUsed : r \in members(id)} :
                              \A r \in members(id) : requests[r].lastUsed <= t,
             originalPrompt |-> requests[first].prompt]
        firsts == {f \in [ids -> SuccessfulRequests] : \A id \in ids : f[id] \in members(id)}
    IN  UNION {{SubSeq(g, 1, Min(limit, Len(g)))
                   : g \in ByPopularity({group(id, f[id]) : id \in ids})}
               : f \in firsts}

\* the number of times x occurs in the sequence
RECURSIVE CountIn(_, _)
CountIn(seq, x) ==
    IF seq = <<>> THEN 0
    ELSE (IF seq[1] = x THEN 1 ELSE 0) + CountIn(Tail(seq), x)

\* one facet of getMoodGenreAnalytics (part_000 lines 168-200): the groups
\* of the unwound values, taken as a set
FacetGroups(values) ==
    LET seen == UNION {{values[r][i] : i \in DOMAIN values[r]} : r \in SuccessfulRequests}
        holding(x) == {r \in SuccessfulRequests : CountIn(values[r], x) > 0}
    IN  {[id |-> x,
          count |-> SumOf(holding(x), [r \in holding(x) |-> CountIn(values[r], x)]),
          averageRating |-> AverageRating(holding(x))] : x \in seen}

getMoodGenreAnalytics ==
    [moodAnalytics |-> FacetGroups([r \in DOMAIN requests |-> requests[r].extractedMoods]),
     genreAnalytics |-> FacetGroups([r \in DOMAIN requests |-> requests[r].extractedGenres])]

\* the aggregate over { user: req.user._id } (aiController.js lines 332-346)
UserStats(userId) ==
    LET own == {r \in DOMAIN requests : requests[r].user = userId}
    IN  [totalRequests |-> Cardinality(own),
         successfulRequests |-> Cardinality({r \in own : requests[r].status = "completed"}),
         averageRating |-> AverageRating(own),
         totalTracksGenerated |->
             SumOf(own, [r \in own |-> Len(requests[r].generatedTracks)])]

\* GET /api/ai/analytics (behind protect, routes/ai.js line 27), lines 324-367
getAIAnalytics(p, u) ==
    /\ CanStart(p)
    /\ \E popularPrompts \in getPopularPrompts(PopularPromptsLimit),
          successfulRequests \in getSuccessfulRequests(SuccessfulLimit) :
           Finish(p, [Response("analytics", u, 0, 200) EXCEPT !.analytics =
               [userStats |-> UserStats(protect(u).id),
                popularPrompts |-> popularPrompts,
                moodGenreAnalytics |-> getMoodGenreAnalytics,
                recentSuccessful |->
                    SubSeq(successfulRequests, 1,
                           Min(RecentSuccessfulCount, Len(successfulRequests)))]])
    /\ UNCHANGED <<scope, clock, active, requests, playlists, userPlaylists, aiCalls, trackStats, accounts>>

\* Analytics: alice and bob submit prompts of their own and read the
\* analytics; the generative service selects ambient tracks, tracks 1 to 3
\* are active.
AnalyticsScopes ==
    {[serial |-> TRUE, tick |-> FALSE, creators |-> Users, callers |-> Users,
      prompts |-> {<<Run("a", 3)>>, <<Run("b", 3)>>}, names |-> {Absent},
      saves |-> BOOLEAN, outcomes |-> {g}, faults |-> BOOLEAN, catalog |-> {1, 2, 3},
      maxRequests |-> MaxRequests]
        : g \in {h \in GeminiOutcomes : h.kind = "object" /\ h.genres = Arr(<<"ambient">>)}}

InitAnalytics ==
    /\ scope \in AnalyticsScopes
    /\ clock = 1
    /\ active = scope.catalog
    /\ requests = <<>>
    /\ playlists = <<>>
    /\ userPlaylists = [u \in Users |-> <<>>]
    /\ procs = [p \in ProcIds |-> IdleProc]
    /\ aiCalls = 0
    /\ trackStats = InitTrackStats
    /\ accounts = [u \in Users |-> NewAccount]

Analytics == \E p \in ProcIds, u \in scope.callers : getAIAnalytics(p, u)

NextAnalytics == Generate \/ Pipeline \/ Analytics

SpecAnalytics == InitAnalytics /\ [][NextAnalytics]_vars

\* the requests alice holds when paging starts: submitted at the times
\* 1..n, each failed by the generative service
SeededRequests(n) ==
    [i \in 1..n |-> [NewRequest("alice", <<Run("a", 3)>>, i) EXCEPT !.status = "failed"]]

\* none, one, one fewer than the cap of a page, as many, one more
SeedRequestCounts == {0, 1, HistoryLimitCap - 1, HistoryLimitCap, HistoryLimitCap + 1}

\* History: the users submit, regenerate, rate and list their history; the
\* generative service answers with text that does not parse.  Either both
\* users submit, regenerate and rate, or time passes while alice submits and
\* bob names her requests in his calls.
HistoryScopes ==
    {[serial |-> TRUE, tick |-> (who = {"alice"}), creators |-> who,
      callers |-> IF who = Users THEN Users ELSE Users \ who,
      prompts |-> {<<Run("a", 3)>>}, names |-> {Absent}, saves |-> {FALSE},
      outcomes |-> {g}, faults |-> {FALSE}, catalog |-> {},
      maxRequests |-> MaxRequests]
        : g \in {h \in GeminiOutcomes : h.kind = "garbage"}, who \in {Users, {"alice"}}}

InitHistory ==
    /\ scope \in HistoryScopes
    /\ clock = 1
    /\ active = scope.catalog
    /\ requests = <<>>
    /\ playlists = <<>>
    /\ userPlaylists = [u \in Users |-> <<>>]
    /\ procs = [p \in ProcIds |-> IdleProc]
    /\ aiCalls = 0
    /\ trackStats = InitTrackStats
    /\ accounts = [u \in Users |-> NewAccount]

History ==
    \E p \in ProcIds, u \in scope.creators \cup scope.callers,
       page \in HistoryPages, limit \in HistoryLimits :
        getAIHistory(p, u, page, limit)

NextHistory == Generate \/ FailingPipeline \/ Regenerate \/ Rate \/ History

SpecHistory == InitHistory /\ [][NextHistory]_vars

\* Paging: alice already holds a number of failed requests, submitted one
\* after the other; the users submit with the generative service down and
\* list their history.
PagingScopes ==
    {[serial |-> TRUE, tick |-> FALSE, creators |-> {"alice"}, callers |-> Users,
      prompts |-> {<<Run("a", 3)>>}, names |-> {Absent}, saves |-> {FALSE},
      outcomes |-> {g}, faults |-> {FALSE}, catalog |-> {},
      maxRequests |-> n + 1]
        : g \in {h \in GeminiOutcomes : h.kind = "throw"}, n \in SeedRequestCounts}

InitPaging ==
    /\ scope \in PagingScopes
    /\ clock = scope.maxRequests
    /\ active = scope.catalog
    /\ requests = SeededRequests(scope.maxRequests - 1)
    /\ playlists = <<>>
    /\ userPlaylists = [u \in Users |-> <<>>]
    /\ procs = [p \in ProcIds |-> IdleProc]
    /\ aiCalls = 0
    /\ trackStats = InitTrackStats
    /\ accounts = [u \in Users |-> NewAccount]

NextPaging == Generate \/ FailingPipeline \/ History

SpecPaging == InitPaging /\ [][NextPaging]_vars

\* Concurrent regeneration: alice's calls interleave, one handler step at
\* a time; the generative service is down.
RaceScopes ==
    {[serial |-> FALSE, tick |-> FALSE, creators |-> {"alice"}, callers |-> {"alice"},
      prompts |-> {<<Run("a", 3)>>}, names |-> {Absent}, saves |-> {FALSE},
      outcomes |-> {g}, faults |-> {FALSE}, catalog |-> {},
      maxRequests |-> MaxProcs + 1]
        : g \in {h \in GeminiOutcomes : h.kind = "throw"}}

InitRace ==
    /\ scope \in RaceScopes
    /\ clock = 1
    /\ active = scope.catalog
    /\ requests = <<>>
    /\ playlists = <<>>
    /\ userPlaylists = [u \in Users |-> <<>>]
    /\ procs = [p \in ProcIds |-> IdleProc]
    /\ aiCalls = 0
    /\ trackStats = InitTrackStats
    /\ accounts = [u \in Users |-> NewAccount]

NextRace == Generate \/ Regenerate \/ FailingPipeline

SpecRace == InitRace /\ [][NextRace]_vars

\* ------------------------------------- /api/playlists (playlist controller)
\* the pre-save hook of the Playlist schema (models/User.js lines 431-455):
\* genre and mood are derived from the tracks when tracks was modified and
\* is not empty
PlaylistPreSave(pl, tracksModified) ==
    IF tracksModified /\ Len(pl.tracks) > 0
    THEN [pl EXCEPT !.genre = {Catalog[pl.tracks[i]].genre : i \in DOMAIN pl.tracks},
                    !.mood = UNION {Catalog[pl.tracks[i]].mood : i \in DOMAIN pl.tracks}]
    ELSE pl

\* Playlist.create of createPlaylist (lines 224-233), schema defaults and
\* the pre-save hook
NewUserPlaylist(user, name, isPublic, tracks) ==
    PlaylistPreSave(
        [name |-> Trim(name), owner |-> user, tracks |-> tracks, isPublic |-> isPublic,
         isAIGenerated |-> FALSE, aiPrompt |-> Absent, isActive |-> TRUE,
         genre |-> {}, mood |-> {}], TRUE)

\* req.body of POST /api/playlists
PlaylistBody(name, trackIds) == [name |-> name, isPublic |-> FALSE, trackIds |-> trackIds]

\* createPlaylistValidation: the name chain
createPlaylistValidation(body) ==
    /\ StrLen(Trim(body.name)) >= 1
    /\ StrLen(Trim(body.name)) <= MaxPlaylistNameLen

\* Track.find({ _id: { $in: trackIds }, isActive: true }), lines 210-213:
\* each active track named, once
ValidTracks(trackIds) == {t \in Range(trackIds) : t \in TrackIds /\ t \in active}

\* POST /api/playlists, lines 195-233: validation, the track check and
\* Playlist.create
createPlaylist(p, u, body) ==
    /\ CanStart(p)
    /\ Len(playlists) < MaxPlaylists
    /\ IF ~createPlaylistValidation(body)
       THEN /\ Finish(p, Response("createPlaylist", u, 0, 400))
            /\ UNCHANGED playlists
       ELSE IF Len(body.trackIds) > 0
               /\ Cardinality(ValidTracks(body.trackIds)) # Len(body.trackIds)
       THEN /\ Finish(p, Response("createPlaylist", u, 0, 400))
            /\ UNCHANGED playlists
       ELSE /\ playlists' = Append(playlists,
                   NewUserPlaylist(u, body.name, body.isPublic,
                                   SeqOfBag(BagOf(ValidTracks(body.trackIds)))))
            /\ procs' = [procs EXCEPT ![p] =
                   [IdleProc EXCEPT !.pc = "playlistCreated", !.op = "createPlaylist",
                                    !.user = u, !.playlist = Len(playlists) + 1]]
    /\ UNCHANGED <<scope, clock, active, requests, userPlaylists, aiCalls, trackStats, accounts>>

\* lines 235-251: the playlist is pushed onto the user's playlists and the
\* call answered.  fault: user.save() rejects and next(error) answers 500.
createPlaylistLinkUser(p, fault) ==
    /\ procs[p].pc = "playlistCreated"
    /\ IF fault
       THEN /\ Finish(p, Response("createPlaylist", procs[p].user, procs[p].playlist, 500))
            /\ UNCHANGED userPlaylists
       ELSE /\ userPlaylists' = [userPlaylists EXCEPT ![procs[p].user] =
                                    Append(@, procs[p].playlist)]
            /\ Finish(p, Response("createPlaylist", procs[p].user, procs[p].playlist, 201))
    /\ UNCHANGED <<scope, clock, active, requests, playlists, aiCalls, trackStats, accounts>>

\* Playlist.findById and the checks shared by the owner-only handlers:
\* 404 for a missing or inactive playlist, 403 for another user's, 0 to go on
PlaylistAccess(u, q) ==
    IF q \notin DOMAIN playlists \/ ~playlists[q].isActive THEN 404
    ELSE IF playlists[q].owner # u THEN 403
    ELSE 0

\* DELETE /api/playlists/:id, lines 323-343: the checks and the soft delete
deletePlaylist(p, u, q) ==
    /\ CanStart(p)
    /\ IF PlaylistAccess(u, q) # 0
       THEN /\ Finish(p, Response("deletePlaylist", u, q, PlaylistAccess(u, q)))
            /\ UNCHANGED playlists
       ELSE /\ playlists' = [playlists EXCEPT ![q] =
                   PlaylistPreSave([@ EXCEPT !.isActive = FALSE], FALSE)]
            /\ procs' = [procs EXCEPT ![p] =
                   [IdleProc EXCEPT !.pc = "playlistDeleted", !.op = "deletePlaylist",
                                    !.user = u, !.playlist = q]]
    /\ UNCHANGED <<scope, clock, active, requests, userPlaylists, aiCalls, trackStats, accounts>>

\* MongooseArray.pull: every entry equal to q is removed
Pull(ids, q) == SelectSeq(ids, LAMBDA x : x # q)

\* lines 345-353: the playlist is pulled from the user's playlists.
\* fault: user.save() rejects and next(error) answers 500.
deletePlaylistUnlinkUser(p, fault) ==
    /\ procs[p].pc = "playlistDeleted"
    /\ IF fault
       THEN /\ Finish(p, Response("deletePlaylist", procs[p].user, procs[p].playlist, 500))
            /\ UNCHANGED userPlaylists
       ELSE /\ userPlaylists' = [userPlaylists EXCEPT ![procs[p].user] =
                                    Pull(@, procs[p].playlist)]
            /\ Finish(p, Response("deletePlaylist", procs[p].user, procs[p].playlist, 200))
    /\ UNCHANGED <<scope, clock, active, requests, playlists, aiCalls, trackStats, accounts>>

\* playlistSchema.methods.addTrack (models/User.js lines 367-384), before
\* its save: the playlist with the track pushed, or unchanged when the
\* track is present (the method throws)
addTrack(pl, trackId) ==
    IF \E i \in DOMAIN pl.tracks : pl.tracks[i] = trackId
    THEN pl
    ELSE [pl EXCEPT !.tracks = Append(@, trackId)]

\* POST /api/playlists/:id/tracks, lines 362-420
addTrackToPlaylist(p, u, q, t) ==
    /\ CanStart(p)
    /\ IF PlaylistAccess(u, q) # 0
       THEN /\ Finish(p, Response("addTrack", u, q, PlaylistAccess(u, q)))
            /\ UNCHANGED playlists
       ELSE IF t \notin TrackIds \/ t \notin active
       THEN /\ Finish(p, Response("addTrack", u, q, 404))
            /\ UNCHANGED playlists
       ELSE IF addTrack(playlists[q], t) = playlists[q]
       THEN /\ Finish(p, Response("addTrack", u, q, 400))
            /\ UNCHANGED playlists
       ELSE /\ playlists' = [playlists EXCEPT ![q] = PlaylistPreSave(addTrack(@, t), TRUE)]
            /\ Finish(p, Response("addTrack", u, q, 200))
    /\ UNCHANGED <<scope, clock, active, requests, userPlaylists, aiCalls, trackStats, accounts>>

\* playlistSchema.methods.removeTrack (models/User.js lines 387-393),
\* before its save
removeTrack(pl, trackId) ==
    [pl EXCEPT !.tracks = SelectSeq(@, LAMBDA x : x # trackId)]

\* DELETE /api/playlists/:id/tracks/:trackId, lines 425-462
removeTrackFromPlaylist(p, u, q, t) ==
    /\ CanStart(p)
    /\ IF PlaylistAccess(u, q) # 0
       THEN /\ Finish(p, Response("removeTrack", u, q, PlaylistAccess(u, q)))
            /\ UNCHANGED playlists
       ELSE /\ playlists' = [playlists EXCEPT ![q] =
                                 PlaylistPreSave(removeTrack(@, t), TRUE)]
            /\ Finish(p, Response("removeTrack", u, q, 200))
    /\ UNCHANGED <<scope, clock, active, requests, userPlaylists, aiCalls, trackStats, accounts>>

\* req.body of the createPlaylist calls: no name; no tracks, one track, a
\* track named twice, two tracks, an inactive track
PlaylistInputs ==
    { PlaylistBody(<<Run(" ", 2)>>, <<>>),
      PlaylistBody(<<Run("m", 3)>>, <<>>),
      PlaylistBody(<<Run("m", 3)>>, <<1>>),
      PlaylistBody(<<Run("m", 3)>>, <<1, 1>>),
      PlaylistBody(<<Run("m", 3)>>, <<1, 2>>),
      PlaylistBody(<<Run("m", 3)>>, <<3>>) }

PlaylistIds == 1..(MaxPlaylists + 1)

\* the tracks named in the addTrack and removeTrack calls
TrackInputs == {1, 2, 3}

\* Playlists: alice and bob create, change and delete playlists; alice
\* also has one generated from a prompt without criteria.  Tracks 1 and 2
\* are active.  The store may reject the save of the user.
PlaylistScopes ==
    {[serial |-> TRUE, tick |-> FALSE, creators |-> {"alice"}, callers |-> Users,
      prompts |-> {<<Run("a", 3)>>}, names |-> {Absent}, saves |-> {TRUE},
      outcomes |-> {g}, faults |-> BOOLEAN, catalog |-> {1, 2}, maxRequests |-> 1]
        : g \in {h \in MatchOutcomes : h.kind = "object" /\ h.genres = Arr(<<>>)}}

InitPlaylist ==
    /\ scope \in PlaylistScopes
    /\ clock = 1
    /\ active = scope.catalog
    /\ requests = <<>>
    /\ playlists = <<>>
    /\ userPlaylists = [u \in Users |-> <<>>]
    /\ procs = [p \in ProcIds |-> IdleProc]
    /\ aiCalls = 0
    /\ trackStats = InitTrackStats
    /\ accounts = [u \in Users |-> NewAccount]

PlaylistOps ==
    \/ \E p \in ProcIds, u \in scope.callers, body \in PlaylistInputs :
          createPlaylist(p, u, body)
    \/ \E p \in ProcIds, fault \in scope.faults : createPlaylistLinkUser(p, fault)
    \/ \E p \in ProcIds, u \in scope.callers, q \in PlaylistIds : deletePlaylist(p, u, q)
    \/ \E p \in ProcIds, fault \in scope.faults : deletePlaylistUnlinkUser(p, fault)
    \/ \E p \in ProcIds, u \in scope.callers, q \in PlaylistIds, t \in TrackInputs :
          addTrackToPlaylist(p, u, q, t)
    \/ \E p \in ProcIds, u \in scope.callers, q \in PlaylistIds, t \in TrackInputs :
          removeTrackFromPlaylist(p, u, q, t)

NextPlaylist == Generate \/ Pipeline \/ PlaylistOps

SpecPlaylist == InitPlaylist /\ [][NextPlaylist]_vars

\* ------------------------------------------ /api/tracks (track controller)
\* the virtual popularityScore (Track.js lines 129-131), in tenths
PopularityScore10(playCount, likeCount) == 7 * playCount + 3 * likeCount

\* POST /api/tracks/:id/like, lines 982-991: Track.findById and the check.
\* Calls of one user do not overlap in the runs checked, and the like
\* counter is capped.
toggleLike(p, u, t) ==
    /\ procs[p].pc = "idle"
    /\ scope.serial => (p = 1 /\ InFlight = {})
    /\ \A q \in InFlight : procs[q].user # u
    /\ IF t \notin TrackIds \/ t \notin active
       THEN Finish(p, Response("like", u, t, 404))
       ELSE /\ trackStats[t].likeCount < MaxLikes
            /\ procs' = [procs EXCEPT ![p] =
                   [IdleProc EXCEPT !.pc = "likeTrackLoaded", !.op = "like", !.user = u,
                                    !.target = t,
                                    !.like = [NoLike EXCEPT
                                                 !.track = t,
                                                 !.likeCount = trackStats[t].likeCount,
                                                 !.playCount = trackStats[t].playCount]]]
    /\ UNCHANGED <<scope, clock, active, requests, playlists, userPlaylists, aiCalls, trackStats, accounts>>

\* userSchema.methods.toggleLike (models/User.js lines 172-181) on a
\* likedTracks array: the array afterwards
ToggledLikes(likedTracks, t) ==
    IF \E i \in DOMAIN likedTracks : likedTracks[i] = t
    THEN LET first == CHOOSE i \in DOMAIN likedTracks :
                          /\ likedTracks[i] = t
                          /\ \A j \in 1..(i - 1) : likedTracks[j] # t
         IN  SubSeq(likedTracks, 1, first - 1)
                 \o SubSeq(likedTracks, first + 1, Len(likedTracks))
    ELSE Append(likedTracks, t)

\* lines 993-994: User.findById and user.toggleLike on the loaded document
toggleLikeLoadUser(p) ==
    /\ procs[p].pc = "likeTrackLoaded"
    /\ LET loaded == accounts[procs[p].user].likedTracks
           t == procs[p].like.track
       IN  procs' = [procs EXCEPT
                        ![p].pc = "likeUserLoaded",
                        ![p].like.likedTracks = ToggledLikes(loaded, t),
                        ![p].like.isLiked = ~(\E i \in DOMAIN loaded : loaded[i] = t)]
    /\ UNCHANGED <<scope, clock, active, requests, playlists, userPlaylists, aiCalls, trackStats, accounts>>

\* trackSchema.methods.incrementLike (Track.js lines 186-190): the loaded
\* count plus one and the score are saved
incrementLike(stats, loaded) ==
    [stats EXCEPT !.likeCount = loaded.likeCount + 1,
                  !.popularity10 = PopularityScore10(loaded.playCount, loaded.likeCount + 1)]

\* trackSchema.methods.decrementLike (Track.js lines 193-197)
decrementLike(stats, loaded) ==
    LET count == IF loaded.likeCount - 1 > 0 THEN loaded.likeCount - 1 ELSE 0
    IN  [stats EXCEPT !.likeCount = count,
                      !.popularity10 = PopularityScore10(loaded.playCount, count)]

\* lines 996-1001: the save of the track
toggleLikeSaveTrack(p) ==
    /\ procs[p].pc = "likeUserLoaded"
    /\ trackStats' = [trackStats EXCEPT ![procs[p].like.track] =
                          IF procs[p].like.isLiked
                          THEN incrementLike(@, procs[p].like)
                          ELSE decrementLike(@, procs[p].like)]
    /\ procs' = [procs EXCEPT ![p].pc = "likeTrackSaved"]
    /\ UNCHANGED <<scope, clock, active, requests, playlists, userPlaylists, aiCalls, accounts>>

\* lines 1003-1012: the save of the user and the response
toggleLikeSaveUser(p) ==
    /\ procs[p].pc = "likeTrackSaved"
    /\ accounts' = [accounts EXCEPT ![procs[p].user].likedTracks = procs[p].like.likedTracks]
    /\ Finish(p, Response("like", procs[p].user, procs[p].like.track, 200))
    /\ UNCHANGED <<scope, clock, active, requests, playlists, userPlaylists, aiCalls, trackStats>>

\* trackSchema.methods.incrementPlay (Track.js lines 179-183)
incrementPlay(stats) ==
    [stats EXCEPT !.playCount = @ + 1,
                  !.popularity10 = PopularityScore10(stats.playCount + 1, stats.likeCount)]

\* a history that is never cut
addToHistoryKeepAll(account, trackId, duration) ==
    LET others == SelectSeq(account.listeningHistory, LAMBDA e : e.track # trackId)
    IN  [account EXCEPT
            !.listeningHistory = <<[track |-> trackId, duration |-> duration]>> \o others,
            !.stats.totalListeningTime = @ + duration,
            !.stats.totalTracks = @ + 1]

\* userSchema.methods.addToHistory (models/User.js lines 150-169)
addToHistory(account, trackId, duration) ==
    LET others == SelectSeq(account.listeningHistory, LAMBDA e : e.track # trackId)
        all == <<[track |-> trackId, duration |-> duration]>> \o others
    IN  [account EXCEPT
            !.listeningHistory = SubSeq(all, 1, Min(ListeningHistoryCap, Len(all))),
            !.stats.totalListeningTime = @ + duration,
            !.stats.totalTracks = @ + 1]

\* POST /api/tracks/:id/play behind optionalAuth, lines 1022-1055; u is
\* "none" for a call without a valid token.  The play counter is capped.
recordPlay(p, u, t, duration) ==
    /\ CanStart(p)
    /\ IF t \notin TrackIds \/ t \notin active
       THEN /\ Finish(p, Response("play", u, t, 404))
            /\ UNCHANGED <<trackStats, accounts>>
       ELSE /\ trackStats[t].playCount - Catalog[t].playCount < MaxPlays
            /\ trackStats' = [trackStats EXCEPT ![t] = incrementPlay(@)]
            /\ accounts' = IF u \in Users
                           THEN [accounts EXCEPT ![u] = addToHistory(@, t, duration)]
                           ELSE accounts
            /\ Finish(p, Response("play", u, t, 200))
    /\ UNCHANGED <<scope, clock, active, requests, playlists, userPlaylists, aiCalls>>

\* the tracks named in the like and play calls: two active tracks and one
\* that is not active
LikeTracks == {1, 2, 3}

\* req.body.duration of the play calls, in seconds
PlayDurations == {0, 30}

\* Likes: the calls of alice and bob interleave, one await at a time.
LikeScopes ==
    {[serial |-> FALSE, tick |-> FALSE, creators |-> {}, callers |-> Users,
      prompts |-> {}, names |-> {Absent}, saves |-> {FALSE},
      outcomes |-> {}, faults |-> {FALSE}, catalog |-> {1, 2}, maxRequests |-> 0]}

InitLike ==
    /\ scope \in LikeScopes
    /\ clock = 1
    /\ active = scope.catalog
    /\ requests = <<>>
    /\ playlists = <<>>
    /\ userPlaylists = [u \in Users |-> <<>>]
    /\ procs = [p \in ProcIds |-> IdleProc]
    /\ aiCalls = 0
    /\ trackStats = InitTrackStats
    /\ accounts = [u \in Users |-> NewAccount]

NextLike ==
    \/ \E p \in ProcIds, u \in scope.callers, t \in LikeTracks : toggleLike(p, u, t)
    \/ \E p \in ProcIds : toggleLikeLoadUser(p)
    \/ \E p \in ProcIds : toggleLikeSaveTrack(p)
    \/ \E p \in ProcIds : toggleLikeSaveUser(p)

SpecLike == InitLike /\ [][NextLike]_vars

\* a listening history of n tracks played earlier that have since left
\* the catalog, each played once
SeededAccount(n) ==
    [NewAccount EXCEPT
        !.listeningHistory = [i \in 1..n |-> [track |-> 100 + i, duration |-> 0]],
        !.stats.totalTracks = n]

\* the lengths of the histories the runs start with
SeedLengths == {0, ListeningHistoryCap - 1, ListeningHistoryCap}

\* Plays: alice and callers without a token report plays, one call at a
\* time; alice's history is empty, one short of its cap or full.
PlayScopes ==
    {[serial |-> TRUE, tick |-> FALSE, creators |-> {}, callers |-> {"alice", "none"},
      prompts |-> {}, names |-> {Absent}, saves |-> {FALSE},
      outcomes |-> {}, faults |-> {FALSE}, catalog |-> {1, 2}, maxRequests |-> 0]}

InitPlay ==
    /\ scope \in PlayScopes
    /\ clock = 1
    /\ active = scope.catalog
    /\ requests = <<>>
    /\ playlists = <<>>
    /\ userPlaylists = [u \in Users |-> <<>>]
    /\ procs = [p \in ProcIds |-> IdleProc]
    /\ aiCalls = 0
    /\ trackStats = InitTrackStats
    /\ \E n \in SeedLengths :
          accounts = [u \in Users |-> IF u = "alice" THEN SeededAccount(n) ELSE NewAccount]

NextPlay ==
    \E p \in ProcIds, u \in scope.callers, t \in LikeTracks, duration \in PlayDurations :
        recordPlay(p, u, t, duration)

SpecPlay == InitPlay /\ [][NextPlay]_vars

\* ------------------------------------------------------------ properties
Terminal == {"completed", "failed"}

StateRank(status) ==
    CASE status = "pending" -> 0 [] status = "processing" -> 1 [] OTHER -> 2

\* C1: the persisted status of a request only moves forward along
\* pending -> processing -> {completed, failed}; once a record is persisted
\* as completed or failed no later step of the pipeline changes its status.
C1_StatusOnlyMovesForward ==
    [][\A r \in DOMAIN requests :
          /\ StateRank(requests'[r].status) >= StateRank(requests[r].status)
          /\ requests[r].status \in Terminal => requests'[r].status = requests[r].status
      ]_vars

\* C2: when a pipeline invocation has ended, the request it marked as
\* processing is persisted as completed or failed: no record is in
\* processing without an invocation still working on it.
C2_NeverStuckInProcessing ==
    \A r \in DOMAIN requests :
        requests[r].status = "processing" =>
            \E p \in ProcIds : procs[p].pc # "idle" /\ procs[p].req = r

\* C3: updateStatus enforces the state machine: processing is entered only
\* from pending, and a record that is completed or failed keeps its status,
\* its elapsed time and its failure reason whatever transition is requested.
C3_TransitionsEnforced ==
    [][\A r \in DOMAIN requests :
          /\ (requests'[r].status = "processing" /\ requests[r].status # "processing")
                => requests[r].status = "pending"
          /\ requests[r].status \in Terminal =>
                /\ requests'[r].status = requests[r].status
                /\ requests'[r].processingTime = requests[r].processingTime
                /\ requests'[r].errorMessage = requests[r].errorMessage
      ]_vars

\* C4: a request whose status is failed has a non-empty errorMessage.
C4_FailedHasReason ==
    \A r \in DOMAIN requests :
        requests[r].status = "failed" => requests[r].errorMessage # ""

\* what the validators are to accept, stated from the limits alone
PromptInRange(prompt) ==
    /\ prompt # Absent
    /\ StrLen(Trim(prompt)) >= MinPromptLen
    /\ StrLen(Trim(prompt)) <= MaxPromptLen

RatingInRange(rating) == rating >= MinRating /\ rating <= MaxRating

\* the comment as the handler receives it: the validation chain trims it
FeedbackInRange(feedback) ==
    feedback = Absent \/ StrLen(Trim(feedback)) <= MaxFeedbackLen

\* the comment as the caller sent it
RawFeedbackInRange(feedback) ==
    feedback = Absent \/ StrLen(feedback) <= MaxFeedbackLen

\* the invocation of p ended with code, changing no record and calling no
\* external service
RejectedWith(p, codes) ==
    /\ requests' = requests
    /\ playlists' = playlists
    /\ userPlaylists' = userPlaylists
    /\ aiCalls' = aiCalls
    /\ procs'[p].pc = "idle"
    /\ procs'[p].res.code \in codes

\* the rate inputs the claim as stated has rejected: the comment is
\* measured as sent
RawInvalidRateInputs ==
    {body \in RateInputs :
        ~(RatingInRange(body.rating) /\ RawFeedbackInRange(body.feedback))}

\* the rate inputs to reject when the comment is measured once trimmed
InvalidRateInputs ==
    {body \in RateInputs :
        ~(RatingInRange(body.rating) /\ FeedbackInRange(body.feedback))}

GenerateRejected ==
    \A p \in ProcIds :
        CanStart(p) =>
            \A u \in scope.creators, prompt \in scope.prompts,
               name \in scope.names, save \in scope.saves :
               (~PromptInRange(prompt) /\ PostGenerate(p, u, GenerateBody(prompt, name, save)))
                  => RejectedWith(p, {400})

RateRejected(inputs) ==
    \A p \in ProcIds :
        CanStart(p) =>
            \A u \in scope.callers, r \in RequestIds, body \in inputs :
               ratePlaylist(p, u, r, body) => RejectedWith(p, {400})

\* C5 (as stated): a generate call whose trimmed prompt length is outside
\* 3..500, and a rate call whose rating is outside 1..5 or whose comment, as
\* sent, is longer than 1000 characters, is answered 400 before any external
\* call, and creates or changes no request.
C5_RawCommentRejected ==
    [][GenerateRejected /\ RateRejected(RawInvalidRateInputs)]_vars

\* C5 (amended): a generate call whose trimmed prompt length is outside
\* 3..500, and a rate call whose rating is outside 1..5 or whose comment is
\* longer than 1000 characters once trimmed, is answered 400 before any
\* external call, and creates or changes no request.
C5_InvalidInputRejected ==
    [][GenerateRejected /\ RateRejected(InvalidRateInputs)]_vars

\* the owner's rate call with a rating in range and a comment longer than
\* 1000 characters has been answered 400
C5_Witness ==
    \E p \in ProcIds :
        /\ procs[p].res.code = 400
        /\ procs[p].res.op = "rate"
        /\ procs[p].res.target \in DOMAIN requests
        /\ requests[procs[p].res.target].user = procs[p].res.user
        /\ RatingInRange(procs[p].res.rating)
        /\ ~FeedbackInRange(procs[p].res.feedback)

\* C6: a rate or regenerate call by a user who does not own the request is
\* rejected; no request changes, none is created, no pipeline starts.
C6_NonOwnerRejected ==
    [][\A p \in ProcIds :
          CanStart(p) =>
             \A u \in scope.callers, r \in DOMAIN requests :
                requests[r].user # u =>
                   ((\/ \E save \in scope.saves : regeneratePlaylist(p, u, r, save)
                     \/ \E body \in RateInputs : ratePlaylist(p, u, r, body))
                      => RejectedWith(p, {400, 404}))
      ]_vars

C6_Witness ==
    \E p \in ProcIds :
        /\ procs[p].res.code = 404
        /\ procs[p].res.op \in {"rate", "regenerate"}
        /\ procs[p].res.target \in DOMAIN requests
        /\ requests[procs[p].res.target].user # procs[p].res.user

\* C7: regenerating an owned request adds exactly 1 to the original's
\* usageCount and sets its lastUsed to now, creates a new request with the
\* stored prompt, and leaves the original's status, generatedTracks,
\* generatedPlaylist and satisfaction as they were.
C7_RegenerateFrame ==
    [][\A p \in ProcIds :
          LET r == procs[p].target
          IN  /\ regenerateMarkAsUsed(p) =>
                    /\ requests'[r].usageCount = requests[r].usageCount + 1
                    /\ requests'[r].lastUsed = clock'
                    /\ Len(requests') = Len(requests)
              /\ (procs[p].op = "regenerate" /\ generateCreate(p)) =>
                    /\ Len(requests') = Len(requests) + 1
                    /\ requests'[Len(requests')].prompt = requests[r].prompt
                    /\ requests'[Len(requests')].user = requests[r].user
              /\ (procs[p].op = "regenerate" /\ procs[p].pc # "idle") =>
                    /\ requests'[r].status = requests[r].status
                    /\ requests'[r].generatedTracks = requests[r].generatedTracks
                    /\ requests'[r].generatedPlaylist = requests[r].generatedPlaylist
                    /\ requests'[r].satisfaction = requests[r].satisfaction
      ]_vars

C7_Witness ==
    \E p \in ProcIds, r \in DOMAIN requests :
        /\ procs[p].res.op = "regenerate"
        /\ procs[p].res.code = 200
        /\ procs[p].res.target # r
        /\ requests[r].usageCount = 2
        /\ requests[r].status = "completed"
        /\ requests[r].generatedPlaylist # 0
        /\ requests[procs[p].res.target].prompt = requests[r].prompt

\* C8: a rating overwrites the one before: after a second rating the
\* request holds the second call's rating and comment and nothing of the
\* first; its status is unchanged.
C8_FeedbackOverwrites ==
    [][\A p \in ProcIds :
          rateSave(p) =>
             LET r == procs[p].target
                 body == procs[p].body
             IN  /\ requests'[r].satisfaction.rated
                 /\ requests'[r].satisfaction.rating = body.rating
                 /\ requests'[r].satisfaction.feedback =
                        (IF body.feedback = Absent THEN <<>> ELSE body.feedback)
                 /\ requests'[r].status = requests[r].status
      ]_vars

C8_Witness ==
    \E p \in ProcIds :
        /\ procs[p].res.op = "rate"
        /\ procs[p].res.code = 200
        /\ procs[p].res.before.rated
        /\ procs[p].res.before.rating # procs[p].res.rating
        /\ procs[p].res.before.feedback # <<>>
        /\ procs[p].res.feedback = Absent
        /\ requests[procs[p].res.target].satisfaction.rating = procs[p].res.rating
        /\ requests[procs[p].res.target].satisfaction.feedback = <<>>

\* C9: every stored extractedMoods value is one of the 12 moods and every
\* stored extractedGenres value one of the 14 genres.
C9_VocabularyOnly ==
    \A r \in DOMAIN requests :
        /\ Range(requests[r].extractedMoods) \subseteq MoodVocabulary
        /\ Range(requests[r].extractedGenres) \subseteq GenreVocabulary

\* the generative service has answered, for some request, with a mood or
\* genre outside the vocabulary, and the invocation has ended
C9_Witness ==
    /\ aiCalls > 0
    /\ InFlight = {}
    /\ \E g \in scope.outcomes :
          /\ g.kind = "object"
          /\ \/ ~(Range(LowerAll(ItemsOf(g.moods))) \subseteq MoodVocabulary)
             \/ ~(Range(LowerAll(ItemsOf(g.genres))) \subseteq GenreVocabulary)

\* C10: every track matched by a generation, and every track of a playlist
\* produced from it, is an active track of the catalog.
C10_OnlyActiveTracks ==
    /\ \A r \in DOMAIN requests : Range(requests[r].generatedTracks) \subseteq active
    /\ \A q \in DOMAIN playlists :
          playlists[q].isAIGenerated => Range(playlists[q].tracks) \subseteq active

\* a generation has matched tracks and produced a playlist although an
\* inactive track satisfies the extracted criteria
C10_Witness ==
    \E r \in DOMAIN requests, t \in TrackIds \ active :
        /\ requests[r].generatedTracks # <<>>
        /\ requests[r].generatedPlaylist # 0
        /\ Catalog[t].mood \cap Range(requests[r].extractedMoods) # {}

\* C11: the tracks matched for a request are catalog tracks, and there are
\* at most as many of them as the catalog has active tracks.
C11_BoundedByCatalog ==
    \A r \in DOMAIN requests :
        /\ Range(requests[r].generatedTracks) \subseteq TrackIds
        /\ Len(requests[r].generatedTracks) <= Cardinality(active)

\* the criteria an invocation hands to the matcher
MoodsOf(p) == ItemsOf(procs[p].gemini.moods)

GenresOf(p) == ItemsOf(procs[p].gemini.genres)

KeywordsOf(p) == ItemsOf(procs[p].gemini.keywords)

EmptyCriteria(p) == MoodsOf(p) = <<>> /\ GenresOf(p) = <<>> /\ KeywordsOf(p) = <<>>

\* C12: with no mood, genre or keyword extracted the primary search takes
\* every active track (up to its limit) and nothing else, the match yields
\* a result, and the result has at most 20 tracks, all active; the request
\* is completed with it.
C12_EmptyCriteriaMatch ==
    \A p \in ProcIds :
        EmptyCriteria(p) =>
            /\ procs[p].pc = "match" =>
                  /\ \A P \in PrimarySearch(active, <<>>, <<>>, <<>>) :
                        /\ P \subseteq active
                        /\ Cardinality(P) = Min(PrimaryLimit, Cardinality(active))
                  /\ MatchTracks(active, <<>>, <<>>, <<>>) # {}
                  /\ \A tracks \in MatchTracks(active, <<>>, <<>>, <<>>) :
                        Len(tracks) <= TargetCount /\ Range(tracks) \subseteq active
            /\ procs[p].pc = "materialize" =>
                  /\ Len(procs[p].tracks) <= TargetCount
                  /\ Range(procs[p].tracks) \subseteq active
                  /\ requests[procs[p].req].status = "completed"
                  /\ requests[procs[p].req].generatedTracks = procs[p].tracks

\* more than 20 tracks are active and a match without criteria has returned 20
C12_Witness ==
    \E p \in ProcIds :
        /\ EmptyCriteria(p)
        /\ procs[p].pc = "materialize"
        /\ Cardinality(active) > TargetCount
        /\ Len(procs[p].tracks) = TargetCount

\* C13: when the analysis succeeds and the match returns no track, the
\* request is completed with no generatedTracks, no playlist is created
\* although the caller asked for one, generatedPlaylist stays unset, and the
\* call is answered with success.
C13_NoTracksNoPlaylist ==
    [][\A p \in ProcIds :
          LET r == procs[p].req
          IN  /\ (generateMatch(p) /\ procs'[p].tracks = <<>>) =>
                    /\ requests'[r].status = "completed"
                    /\ requests'[r].generatedTracks = <<>>
                    /\ requests'[r].generatedPlaylist = 0
              /\ (/\ procs[p].pc = "materialize"
                  /\ procs[p].tracks = <<>>
                  /\ procs'[p] # procs[p]) =>
                    /\ procs[p].body.savePlaylist => procs'[p].pc = "idle"
                    /\ procs'[p].pc = "idle" => procs'[p].res.code = 200
                    /\ playlists' = playlists
                    /\ userPlaylists' = userPlaylists
                    /\ requests' = requests
      ]_vars

\* a call that asked for a playlist has been answered with success, its
\* request completed without tracks and without a playlist
C13_Witness ==
    \E p \in ProcIds :
        /\ scope.saves = {TRUE}
        /\ procs[p].res.code = 200
        /\ procs[p].res.target \in DOMAIN requests
        /\ requests[procs[p].res.target].status = "completed"
        /\ requests[procs[p].res.target].generatedTracks = <<>>
        /\ requests[procs[p].res.target].generatedPlaylist = 0
        /\ playlists = <<>>

\* C14: when a generation answers success with a playlist, the playlist is
\* AI-generated, private and owned by the caller, holds exactly the matched
\* tracks, is the generatedPlaylist of the request, and is among the
\* caller's playlists.
C14_PlaylistLinked ==
    [][\A p \in ProcIds :
          generateRespond(p) =>
             LET q == procs[p].playlist
                 r == procs[p].req
             IN  /\ procs'[p].res.code = 200
                 /\ q \in DOMAIN playlists'
                 /\ playlists'[q].isAIGenerated
                 /\ ~playlists'[q].isPublic
                 /\ playlists'[q].owner = procs[p].user
                 /\ requests'[r].user = procs[p].user
                 /\ playlists'[q].tracks = requests'[r].generatedTracks
                 /\ playlists'[q].tracks = procs[p].tracks
                 /\ requests'[r].generatedPlaylist = q
                 /\ q \in Range(userPlaylists'[procs[p].user])
      ]_vars

\* a regeneration has answered success with a second playlist of the caller
C14_Witness ==
    \E p \in ProcIds :
        /\ procs[p].res.code = 200
        /\ procs[p].res.op = "regenerate"
        /\ procs[p].res.target \in DOMAIN requests
        /\ requests[procs[p].res.target].generatedPlaylist \in DOMAIN playlists
        /\ Len(userPlaylists[procs[p].res.user]) >= 1
        /\ requests[procs[p].res.target].generatedTracks # <<>>

\* C15: within one hour no user gets more than 10 generate or regenerate
\* calls past the rate limiter: at most 10 requests of a user are created
\* and at most 10 calls of the generative service are made for them.
C15_TenPerWindow ==
    clock - 1 < OneHour =>
        \A u \in Users :
            Cardinality({r \in DOMAIN requests : requests[r].user = u}) <= AiRateLimitMax

\* C16: a request created, moved to processing and then to completed has
\* an elapsed processing time greater than zero, whether or not the clock
\* advanced between the two transitions.
C16_ElapsedPositive ==
    \A r \in DOMAIN requests :
        requests[r].status = "completed" => requests[r].processingTime > 0

\* C18: when the text of the generative service is JSON that is no object
\* (a number, an array), the request is never completed.
C18_NonObjectNeverCompleted ==
    \A r \in DOMAIN requests :
        requests[r].geminiResponse = "scalar" => requests[r].status # "completed"

\* C17: normalizing a normalized prompt changes nothing, for the prompt
\* submitted and for the normalizedPrompt of every stored request, and every
\* stored request has normalizedPrompt = normalizePrompt(prompt).
C17_NormalizeIdempotent ==
    /\ \A t \in scope.prompts :
          normalizePrompt(normalizePrompt(t)) = normalizePrompt(t)
    /\ \A r \in DOMAIN requests :
          /\ requests[r].normalizedPrompt = normalizePrompt(requests[r].prompt)
          /\ normalizePrompt(requests[r].normalizedPrompt) = requests[r].normalizedPrompt

\* a stored prompt with punctuation between words, which normalization changed
C17_Witness ==
    \E r \in DOMAIN requests :
        /\ \E i \in 2..(Len(requests[r].prompt) - 1) : requests[r].prompt[i][1] = "!"
        /\ requests[r].normalizedPrompt # requests[r].prompt
        /\ Len(requests[r].normalizedPrompt) = 3

\* C19: a history page holds only requests of the caller, the more recent
\* first: no request of another user is ever listed, whatever generate,
\* regenerate and rate calls came before.
C19_HistoryOwnRequests ==
    \A p \in ProcIds :
        procs[p].res.op = "history" =>
            LET page == procs[p].res.history
            IN  /\ \A i \in DOMAIN page :
                      /\ page[i] \in DOMAIN requests
                      /\ requests[page[i]].user = procs[p].res.user
                /\ \A i, j \in DOMAIN page :
                      i < j => /\ page[i] # page[j]
                               /\ requests[page[i]].createdAt >= requests[page[j]].createdAt

\* a page of two requests created at different times, returned to a user
\* while the other user has a request too
C19_Witness ==
    \E p \in ProcIds :
        /\ procs[p].res.op = "history"
        /\ Len(procs[p].res.history) = 1
        /\ \E r \in DOMAIN requests : requests[r].user # procs[p].res.user

\* a track meets one of the criteria handed to the matcher
SatisfiesCriterion(t, moods, genres, keywords) ==
    \/ Catalog[t].mood \cap Range(LowerAll(moods)) # {}
    \/ Catalog[t].genre \in Range(LowerAll(genres))
    \/ \E k \in Range(keywords) :
          \/ \E tag \in Catalog[t].tags : RegexMatch(k, tag)
          \/ RegexMatch(k, Catalog[t].title)
          \/ RegexMatch(k, Catalog[t].artist)

\* the primary search of invocation p found at least ten tracks
PrimaryEnough(p) ==
    \A P \in PrimarySearch(active, MoodsOf(p), GenresOf(p), KeywordsOf(p)) :
        Cardinality(P) >= FallbackThreshold

\* the fallback adds nothing when the primary search found ten tracks or
\* more; otherwise it adds the most popular active tracks, 20 - |primary| of
\* them or all there are, and the pool has at most 20 tracks
FallbackAsStated(p) ==
    \A P \in PrimarySearch(active, MoodsOf(p), GenresOf(p), KeywordsOf(p)) :
        \A F \in FallbackSearch(active, Cardinality(P)) :
            /\ Cardinality(P) >= FallbackThreshold => F = {}
            /\ Cardinality(P) < FallbackThreshold =>
                  /\ F \subseteq active
                  /\ Cardinality(F) =
                         Min(FallbackTarget - Cardinality(P), Cardinality(active))
                  /\ \A a \in F, b \in active \ F :
                         Catalog[a].popularity >= Catalog[b].popularity
                  /\ Cardinality(P) + Cardinality(F) <= FallbackTarget

\* C20 as stated: the fallback runs exactly when the primary search found
\* fewer than 10 tracks and then adds at most 20 - |primary| of the most
\* popular active tracks; the selection has at most 20 tracks; and when the
\* primary search found 10 or more, every selected track meets a criterion.
C20_FallbackAndSelection ==
    \A p \in ProcIds :
        /\ procs[p].pc = "match" => FallbackAsStated(p)
        /\ procs[p].pc = "materialize" =>
              /\ Len(procs[p].tracks) <= TargetCount
              /\ PrimaryEnough(p) =>
                    \A t \in Range(procs[p].tracks) :
                        SatisfiesCriterion(t, MoodsOf(p), GenresOf(p), KeywordsOf(p))

\* C20, amended: as above, where every selected track meets a criterion
\* when the primary search found 10 or more and some criterion was extracted.
C20_FallbackAndSelectionWithCriteria ==
    \A p \in ProcIds :
        /\ procs[p].pc = "match" => FallbackAsStated(p)
        /\ procs[p].pc = "materialize" =>
              /\ Len(procs[p].tracks) <= TargetCount
              /\ (PrimaryEnough(p) /\ ~EmptyCriteria(p)) =>
                    \A t \in Range(procs[p].tracks) :
                        SatisfiesCriterion(t, MoodsOf(p), GenresOf(p), KeywordsOf(p))

\* nine tracks met the criteria, the fallback filled the pool and 20 tracks
\* were selected
C20_Witness ==
    \E p \in ProcIds :
        /\ procs[p].pc = "materialize"
        /\ ~EmptyCriteria(p)
        /\ \A P \in PrimarySearch(active, MoodsOf(p), GenresOf(p), KeywordsOf(p)) :
              Cardinality(P) = FallbackThreshold - 1
        /\ Len(procs[p].tracks) = TargetCount

\* C21: when the playlist of a generation was created and a later step
\* (the push onto the user's playlists, the save of generatedPlaylist) fails,
\* the request does not end in failed and the caller gets no error response.
C21_PartialMaterializationRecoverable ==
    [][\A p \in ProcIds :
          (generateCatch(p) /\ procs[p].playlist # 0) =>
              /\ requests'[procs[p].req].status # "failed"
              /\ procs'[p].res.code = 200]_vars

\* C22: every regenerate call of the owner adds one to the usageCount the
\* request has in the store, in any interleaving of the calls' steps, so
\* that N finished calls add N.
C22_EveryReuseCounted ==
    [][\A p \in ProcIds :
          regenerateMarkAsUsed(p) =>
              requests'[procs[p].target].usageCount
                  = requests[procs[p].target].usageCount + 1]_vars

\* the number of entries of a track list that are track t
Occurrences(tracks, t) == Cardinality({i \in DOMAIN tracks : tracks[i] = t})

\* C23: the fallback does not leave out what the primary search found: when
\* the primary search found 1 to 9 tracks and the pool has at most 20, the
\* matched tracks hold every track once for each query that returned it, a
\* track returned by both twice; the request stores that list and the
\* playlist created from it has the same entries.
C23_FallbackKeepsDuplicates ==
    \A p \in ProcIds :
        /\ procs[p].pc = "materialize" =>
              /\ \A P \in PrimarySearch(active, MoodsOf(p), GenresOf(p), KeywordsOf(p)) :
                    (Cardinality(P) \in 1..(FallbackThreshold - 1)
                        /\ Cardinality(P) + Cardinality(active) <= TargetCount) =>
                        \A t \in TrackIds :
                            Occurrences(procs[p].tracks, t)
                                = (IF t \in P THEN 1 ELSE 0) + (IF t \in active THEN 1 ELSE 0)
              /\ requests[procs[p].req].generatedTracks = procs[p].tracks
        /\ procs[p].pc = "linkUser" =>
              \A t \in TrackIds :
                  Occurrences(playlists[procs[p].playlist].tracks, t)
                      = Occurrences(procs[p].tracks, t)

\* a track is twice in the tracks of a request and twice in the playlist
\* produced for it
C23_Witness ==
    \E r \in DOMAIN requests, t \in TrackIds :
        /\ Occurrences(requests[r].generatedTracks, t) = 2
        /\ requests[r].generatedPlaylist \in DOMAIN playlists
        /\ Occurrences(playlists[requests[r].generatedPlaylist].tracks, t) = 2

\* C24: the genre set of every playlist is the set of genres of its tracks
\* and its mood set the union of their moods, after any creation, addTrack
\* and removeTrack, the removal of the last track included.
C24_TagsDerivedFromTracks ==
    \A q \in DOMAIN playlists :
        /\ playlists[q].genre =
               {Catalog[playlists[q].tracks[i]].genre : i \in DOMAIN playlists[q].tracks}
        /\ playlists[q].mood =
               UNION {Catalog[playlists[q].tracks[i]].mood : i \in DOMAIN playlists[q].tracks}

\* C25: no playlist holds a track twice, after any createPlaylist,
\* addTrackToPlaylist, removeTrackFromPlaylist and generation that saves a
\* playlist.
C25_NoRepeatedTrack ==
    \A q \in DOMAIN playlists :
        \A i, j \in DOMAIN playlists[q].tracks :
            i # j => playlists[q].tracks[i] # playlists[q].tracks[j]

\* C30: when no call is in flight, every id in a user's playlists is an
\* active playlist of that user and every active playlist of a user is in
\* that user's playlists, also after calls whose save of the user failed.
C30_UserPlaylistsConsistent ==
    InFlight = {} =>
        \A u \in Users :
            /\ \A i \in DOMAIN userPlaylists[u] :
                  /\ userPlaylists[u][i] \in DOMAIN playlists
                  /\ playlists[userPlaylists[u][i]].isActive
                  /\ playlists[userPlaylists[u][i]].owner = u
            /\ \A q \in DOMAIN playlists :
                  (playlists[q].isActive /\ playlists[q].owner = u) =>
                      \E i \in DOMAIN userPlaylists[u] : userPlaylists[u][i] = q

\* C26: when no like call is in flight, the likeCount of every track is
\* the number of users whose likedTracks holds the track, and is not
\* negative, whatever the interleaving of the calls was.
C26_LikeCountMatchesLikers ==
    InFlight = {} =>
        \A t \in TrackIds :
            /\ trackStats[t].likeCount >= 0
            /\ trackStats[t].likeCount =
                   Cardinality({u \in Users :
                       \E i \in DOMAIN accounts[u].likedTracks :
                           accounts[u].likedTracks[i] = t})

RECURSIVE PagesFrom(_, _, _, _)
PagesFrom(u, limit, page, totalPages) ==
    IF page > totalPages THEN <<>>
    ELSE (CHOOSE h \in HistoryPage(u, page, limit) : TRUE)
             \o PagesFrom(u, limit, page + 1, totalPages)

\* C28: paging through the history with any limit >= 1, the pages
\* 1..totalPages (totalPages as the response reports it) hold every request
\* of the caller exactly once.
C28_PagingCompleteNoOverlap ==
    \A u \in Users, limit \in HistoryLimits :
        LET paged == PagesFrom(u, limit, 1, Pagination(u, limit).totalPages)
        IN  \A r \in DOMAIN requests :
                requests[r].user = u =>
                    Cardinality({i \in DOMAIN paged : paged[i] = r}) = 1

\* C29: a request is visible to its owner only; the analytics response to
\* a user holds no record, username or prompt text of a request that
\* another user owns.
C29_AnalyticsOwnRequestsOnly ==
    \A p \in ProcIds :
        procs[p].res.op = "analytics" =>
            LET data == procs[p].res.analytics
                own == {r \in DOMAIN requests : requests[r].user = procs[p].res.user}
            IN  /\ \A i \in DOMAIN data.recentSuccessful :
                       /\ data.recentSuccessful[i].request \in own
                       /\ data.recentSuccessful[i].username = procs[p].res.user
                /\ \A i \in DOMAIN data.popularPrompts :
                       data.popularPrompts[i].originalPrompt \in {requests[r].prompt : r \in own}

====
